---------------------------- MODULE Spec2Model ----------------------------
(***************************************************************************)
(* Visit-order and road-mileage calculation engine of Routing_v2.          *)
(*                                                                         *)
(*   buildOrder                 RoadMileageModal.tsx, utils/territoryRun.ts *)
(*   osrmRoute                  utils/osrm.ts                               *)
(*   RoadMileageModal.run       RoadMileageModal.tsx (section run)          *)
(*   computeTerritoryRunRoads   utils/territoryRoad.ts (bulk run)           *)
(*                                                                         *)
(* JavaScript runs every handler to completion: a macrotask (click, timer, *)
(* network event) is followed by all the microtasks it queued before the   *)
(* next macrotask starts.  The model keeps that discipline: while a        *)
(* continuation is queued (net = "done", or pc in a synchronous position)  *)
(* no macrotask action is enabled.                                         *)
(***************************************************************************)
EXTENDS Integers, Sequences, FiniteSets, TLC

(***************************************************************************)
(* Bounds of the model.                                                    *)
(***************************************************************************)
MaxPts == 3
MaxLat == 2
MaxRank == 2
MaxCombos == 2
MaxRuns == 2
MaxCalls == 2
MaxSaves == 2

(***************************************************************************)
(* Encodings of JavaScript values that are not integers.                   *)
(***************************************************************************)
NaN == -1
PosInf == -2
NoRank == -3

PointIds == 1..MaxPts
WeekKeys == 1..4
OrderModes == {"useExistingAndFill", "rebuildNearest"}

VARIABLES
  ordMode,      \* buildOrder: params.orderMode
  ordWeekKey,   \* buildOrder: params.weekKey
  ordStart,     \* buildOrder: params.start
  ordPoints,    \* buildOrder: params.points
  ordOut,       \* buildOrder: the returned array
  ordDone       \* buildOrder has returned

VARIABLES
  caller,       \* who drives osrmRoute: "section", "bulk" or "direct"
  pc,           \* position of the caller's async function
  net,          \* osrmRoute: the awaited fetch()/res.json() promise
  fetchOutcome, \* osrmRoute: how the awaited promise settled
  routeRes,     \* osrmRoute: json.routes[0] of a successful response
  timerArmed,   \* osrmRoute: the timeout t is set and not cleared
  timedOut,     \* osrmRoute: let timedOut
  ctrlAborted,  \* osrmRoute: controller.signal.aborted
  listenerOn,   \* osrmRoute: onExternalAbort is registered on signal
  hasSignal,    \* the caller passes a signal
  sigAborted,   \* signal.aborted of the caller's signal
  osrmResult,   \* osrmRoute: the value or error the call settled with
  abortCause,   \* history: what aborted the controller of the last call
  reqStarted,   \* history: network requests issued by the current run
  reqAfterAbort \* history: those issued once the caller's signal was aborted

VARIABLES
  cfg,          \* section modal: props, filters, scope, data of the render
  dataPoints,   \* section modal: data.points
  tasks,        \* section run: the tasks the run closure captured
  isRunning,    \* section modal: isRunning
  error,        \* section modal: error
  draftReports, \* section modal: draftReports
  draftOrders,  \* section modal: draftOrders
  abortRef,     \* section modal: abortRef.current
  idx,          \* section run: the loop index
  curOrdered,   \* section run: const ordered of the current iteration
  reports,      \* section run: const reports
  ordersByPointId, \* section run: const ordersByPointId
  runs,         \* history: number of runs started
  progressLog   \* history: the {done, total} events of the current run

VARIABLES
  bRun,         \* computeTerritoryRunRoads: params.run (combos flattened)
  bMaxParam,    \* computeTerritoryRunRoads: params.maxStopsPerCombo
  bTasks,       \* computeTerritoryRunRoads: const tasks
  bi,           \* computeTerritoryRunRoads: the loop index i
  bNext,        \* computeTerritoryRunRoads: const next
  bResult,      \* computeTerritoryRunRoads: how the promise settled
  bReturned,    \* computeTerritoryRunRoads: the run it resolved with
  bReq,         \* history: provider requests issued per task
  bFail,        \* history: the provider outcome of each task
  dCalls,       \* direct calls of osrmRoute made so far
  dCoords       \* direct call: params.coords.length

VARIABLES
  open,         \* modal: props.open
  roadMileageReports, \* store: data.roadMileageReports, newest first
  territoryCalcRuns,  \* store: data.territoryCalcRuns, newest first
  lastSave,     \* history: the save handler that ran last
  pointsBefore, \* history: data.points when that handler was entered
  saves,        \* history: number of save handlers run
  reopenAborts  \* history: runs aborted by the open effect

VARIABLES
  visiblePoints, \* TerritoryMileageModal: props.visiblePoints
  startByRoute,  \* TerritoryMileageModal: startByRoute
  draft          \* TerritoryMileageModal: draft

VARIABLES
  cyWeek,       \* cycle resolver: the input passed in
  cyOut         \* cycle resolver: what it returned

ordVars == <<ordMode, ordWeekKey, ordStart, ordPoints, ordOut, ordDone>>

osrmVars == <<net, fetchOutcome, routeRes, timerArmed, timedOut, ctrlAborted,
              listenerOn, osrmResult, abortCause, reqStarted, reqAfterAbort>>

sigVars == <<hasSignal, sigAborted>>

secVars == <<cfg, dataPoints, tasks, isRunning, error, draftReports, draftOrders,
             abortRef, idx, curOrdered, reports, ordersByPointId, runs>>

bulkVars == <<bRun, bMaxParam, bTasks, bi, bNext, bResult, bReturned, bReq,
              bFail>>

dirVars == <<dCalls, dCoords>>

storeVars == <<open, roadMileageReports, territoryCalcRuns, lastSave,
               pointsBefore, saves, reopenAborts>>

terrVars == <<visiblePoints, startByRoute, draft>>

cycVars == <<cyWeek, cyOut>>

extVars == <<storeVars, terrVars, cycVars>>

vars == <<ordVars, caller, pc, osrmVars, sigVars, secVars, progressLog,
          bulkVars, dirVars, extVars>>

(***************************************************************************)
(* Helpers on sequences.                                                   *)
(***************************************************************************)
Range(s) == {s[i] : i \in 1..Len(s)}

RemoveAt(s, i) == SubSeq(s, 1, i - 1) \o SubSeq(s, i + 1, Len(s))

Ids(s) == [i \in 1..Len(s) |-> s[i].id]

CountId(s, x) == Cardinality({i \in 1..Len(s) : s[i].id = x})

(***************************************************************************)
(* haversineDistance.  Every location of the model lies on the meridian    *)
(* lon = 0, where the great-circle distance is R * |dLat| * pi / 180: the  *)
(* distance is kept in degrees of latitude, which orders pairs exactly as  *)
(* the kilometres do.  A NaN coordinate gives a NaN distance.              *)
(***************************************************************************)
haversineDistance(lat1, lon1, lat2, lon2) ==
  IF lat1 = NaN \/ lat2 = NaN \/ lon1 = NaN \/ lon2 = NaN THEN NaN
  ELSE IF lat2 >= lat1 THEN lat2 - lat1 ELSE lat1 - lat2

\* d < bestD on JavaScript numbers: false for NaN, true against +Infinity
LessThan(d, bestD) ==
  IF d = NaN THEN FALSE
  ELSE IF bestD = PosInf THEN TRUE
  ELSE d < bestD

(***************************************************************************)
(* buildOrder, nearest-neighbour part: the inner for loop that finds       *)
(* bestIdx (first index at the strictly smallest distance), and the outer  *)
(* while loop that splices it out of rest and appends it to result.        *)
(***************************************************************************)
RECURSIVE ScanBest(_, _, _, _, _, _)
ScanBest(curLat, curLon, rest, i, bestIdx, bestD) ==
  IF i > Len(rest) THEN bestIdx
  ELSE LET d == haversineDistance(curLat, curLon, rest[i].lat, rest[i].lon)
       IN IF LessThan(d, bestD)
          THEN ScanBest(curLat, curLon, rest, i + 1, i, d)
          ELSE ScanBest(curLat, curLon, rest, i + 1, bestIdx, bestD)

RECURSIVE NearestLoop(_, _, _, _)
NearestLoop(curLat, curLon, rest, result) ==
  IF Len(rest) = 0 THEN result
  ELSE LET bestIdx == ScanBest(curLat, curLon, rest, 1, 1, PosInf)
           next == rest[bestIdx]
       IN NearestLoop(next.lat, next.lon, RemoveAt(rest, bestIdx),
                      Append(result, next))

(***************************************************************************)
(* buildOrder, useExistingAndFill part: the filter on a finite saved rank  *)
(* under weekKey and the sort by (rank, id).                               *)
(***************************************************************************)
RankOf(p, weekKey) == p.visitOrderByWeek[weekKey]

\* typeof rank === 'number' && Number.isFinite(rank)
HasFiniteRank(p, weekKey) ==
  RankOf(p, weekKey) # NoRank /\ RankOf(p, weekKey) # PosInf

\* faulty variant of RankBefore: equal ranks are ordered by descending id
RankBeforeTieReversed(a, b, weekKey) ==
  LET oa == RankOf(a, weekKey)
      ob == RankOf(b, weekKey)
  IN IF oa = ob THEN a.id > b.id ELSE oa < ob

\* the sort comparator returns a negative number: a goes before b
RankBefore(a, b, weekKey) ==
  LET oa == RankOf(a, weekKey)
      ob == RankOf(b, weekKey)
  IN IF oa = ob THEN a.id < b.id ELSE oa < ob

RECURSIVE InsertSorted(_, _, _)
InsertSorted(p, s, weekKey) ==
  IF Len(s) = 0 THEN <<p>>
  ELSE IF RankBefore(p, Head(s), weekKey) THEN <<p>> \o s
  ELSE <<Head(s)>> \o InsertSorted(p, Tail(s), weekKey)

RECURSIVE SortByRank(_, _)
SortByRank(s, weekKey) ==
  IF Len(s) = 0 THEN <<>>
  ELSE InsertSorted(s[Len(s)], SortByRank(SubSeq(s, 1, Len(s) - 1), weekKey),
                    weekKey)

\* faulty variant of RestOf: the ranked locations are not filtered out
RestOfAll(points, orderedIds) == points

\* const rest = points.filter((p) => !orderedIds.has(p.id)).slice()
RestOf(points, orderedIds) ==
  LET NotOrdered(p) == p.id \notin orderedIds
  IN SelectSeq(points, NotOrdered)

buildOrder(orderMode, weekKey, start, points) ==
  IF orderMode = "useExistingAndFill"
  THEN LET Ranked(p) == HasFiniteRank(p, weekKey)
           ordered == SortByRank(SelectSeq(points, Ranked), weekKey)
           orderedIds == {ordered[i].id : i \in 1..Len(ordered)}
           rest == RestOf(points, orderedIds)
           curLat == IF Len(ordered) > 0 THEN ordered[Len(ordered)].lat
                     ELSE start.lat
           curLon == IF Len(ordered) > 0 THEN ordered[Len(ordered)].lon
                     ELSE start.lon
       IN NearestLoop(curLat, curLon, rest, ordered)
  ELSE NearestLoop(start.lat, start.lon, points, <<>>)

(***************************************************************************)
(* Rounding helpers.  Kilometres are kept in tenths (round1 keeps one      *)
(* decimal), metres, seconds and minutes are integers.                     *)
(***************************************************************************)
\* round1(metres / 1000), in tenths of a kilometre: Math.round(n * 10) / 10
round1Km(metres) == (metres + 50) \div 100

\* toIntMinutes(seconds / 60): Math.round
toIntMinutes(seconds) == (seconds + 30) \div 60

\* normalizeVisitMinutes; raw is NaN or a number of tenths of a minute
normalizeVisitMinutes(raw) ==
  IF raw = NaN \/ raw <= 0 THEN 15 ELSE (raw + 5) \div 10

RECURSIVE SumSeq(_)
SumSeq(s) == IF Len(s) = 0 THEN 0 ELSE Head(s) + SumSeq(Tail(s))

(***************************************************************************)
(* Cycle / frequency resolver.                                             *)
(***************************************************************************)
\* faulty variant of WrapDown: the year is taken to have 53 weeks
WrapDownBy53(w) == IF w > 53 THEN w - 53 ELSE w

RECURSIVE WrapDown(_)
WrapDown(w) == IF w > 52 THEN WrapDown(w - 52) ELSE w

RECURSIVE WrapUp(_)
WrapUp(w) == IF w <= 0 THEN WrapUp(w + 52) ELSE w

getCycleIndexByISOWeek(targetISOWeek) ==
  ((WrapUp(WrapDown(targetISOWeek)) - 1) % 4) + 1

\* faulty variant of getWeekKeyFromIsoWeek: the key repeats every two weeks
getWeekKeyFromIsoWeekMod2(isoWeek) == ((isoWeek - 1) % 2) + 1

getWeekKeyFromIsoWeek(isoWeek) == ((isoWeek - 1) % 4) + 1

\* the recurrence codes of the model; "2.1" is the dotted spelling of "2,1"
FreqCodes == {"", "0", "4", "2,1", "2,2", "1,1", "1,2", "1,3", "1,4",
              "2.1", "9"}

normalizeFreqCode(raw) == IF raw = "2.1" THEN "2,1" ELSE raw

\* faulty variant of pointMatchesCycleWeek: an unrecognized code is never active
pointMatchesCycleWeekFailClosed(frequencyCode, targetISOWeek) ==
  LET freqCode == normalizeFreqCode(frequencyCode)
      isOddWeek == targetISOWeek % 2 = 1
      cycleIndex == getCycleIndexByISOWeek(targetISOWeek)
  IN IF freqCode = "" THEN TRUE
     ELSE CASE freqCode = "0" -> FALSE
            [] freqCode = "4" -> TRUE
            [] freqCode = "2,1" -> isOddWeek
            [] freqCode = "2,2" -> ~isOddWeek
            [] freqCode = "1,1" -> cycleIndex = 1
            [] freqCode = "1,2" -> cycleIndex = 2
            [] freqCode = "1,3" -> cycleIndex = 3
            [] freqCode = "1,4" -> cycleIndex = 4
            [] OTHER -> FALSE

pointMatchesCycleWeek(frequencyCode, targetISOWeek) ==
  LET freqCode == normalizeFreqCode(frequencyCode)
      isOddWeek == targetISOWeek % 2 = 1
      cycleIndex == getCycleIndexByISOWeek(targetISOWeek)
  IN IF freqCode = "" THEN TRUE
     ELSE CASE freqCode = "0" -> FALSE
            [] freqCode = "4" -> TRUE
            [] freqCode = "2,1" -> isOddWeek
            [] freqCode = "2,2" -> ~isOddWeek
            [] freqCode = "1,1" -> cycleIndex = 1
            [] freqCode = "1,2" -> cycleIndex = 2
            [] freqCode = "1,3" -> cycleIndex = 3
            [] freqCode = "1,4" -> cycleIndex = 4
            [] OTHER -> TRUE

\* getISOWeekNumber(today + offset * 7 days); today lies in ISO week curWeek
\* of an ISO year of yearWeeks (52 or 53) weeks
getTargetIsoWeekFromOffset(offset, curWeek, yearWeeks) ==
  IF curWeek + offset > yearWeeks THEN curWeek + offset - yearWeeks
  ELSE curWeek + offset

(***************************************************************************)
(* Section modal: what a render derives from props, filters and data.      *)
(* filters.days and filters.cycleWeeks are Sets, iterated in insertion     *)
(* order: sequences without repetition.  Z0 is the non-numeric member of   *)
(* filters.cycleWeeks.  An absent value is the empty sequence, a present   *)
(* one a one-element sequence.                                             *)
(***************************************************************************)
Z0 == -1
None == <<>>
Some(v) == <<v>>

baseOk(c) == c.mapMode = "section" /\ c.sectionRoute # ""

selectedDayCodes(c) ==
  LET IsWeekday(d) == d \in 1..5
      weekdays == SelectSeq(c.days, IsWeekday)
  IN IF Len(weekdays) > 0 THEN weekdays ELSE <<1, 2, 3, 4, 5>>

selectedWeekOffsets(c) ==
  LET IsNumber(x) == x # Z0
      offs == SelectSeq(c.cycleWeeks, IsNumber)
  IN IF Len(offs) > 0 THEN offs ELSE <<0, 1, 2, 3>>

singleContext(c) ==
  IF ~baseOk(c) THEN None
  ELSE IF Len(c.days) # 1 THEN None
  ELSE IF Len(c.cycleWeeks) # 1 THEN None
  ELSE IF Z0 \in Range(c.cycleWeeks) THEN None
  ELSE IF c.days[1] \in {6, 7} THEN None
  ELSE LET only == c.cycleWeeks[1]
           isoWeek == getTargetIsoWeekFromOffset(only, c.curWeek, c.yearWeeks)
       IN Some([dayCode |-> c.days[1], weekOffset |-> only,
                isoWeek |-> isoWeek,
                weekKey |-> getWeekKeyFromIsoWeek(isoWeek)])

canRun(c) ==
  IF ~baseOk(c) THEN FALSE
  ELSE IF Z0 \in Range(c.cycleWeeks) THEN FALSE
  ELSE IF c.scope = "single" THEN singleContext(c) # None
  ELSE Len(selectedDayCodes(c)) # 0 /\ Len(selectedWeekOffsets(c)) # 0

\* res.sort by weekOffset, then dayCode (stable insertion)
TaskBefore(a, b) ==
  \/ a.weekOffset < b.weekOffset
  \/ a.weekOffset = b.weekOffset /\ a.dayCode < b.dayCode

RECURSIVE InsertTask(_, _)
InsertTask(t, s) ==
  IF Len(s) = 0 THEN <<t>>
  ELSE IF TaskBefore(t, Head(s)) THEN <<t>> \o s
  ELSE <<Head(s)>> \o InsertTask(t, Tail(s))

\* faulty variant of SortTasks: the tasks stay in push order
SortTasksPushOrder(s) == s

RECURSIVE SortTasks(_)
SortTasks(s) ==
  IF Len(s) = 0 THEN <<>>
  ELSE InsertTask(s[Len(s)], SortTasks(SubSeq(s, 1, Len(s) - 1)))

\* faulty variant of DuePoints: the recurrence code is not consulted
DuePointsAnyWeek(routePoints, dayCode, isoWeek) ==
  LET OnDay(p) == p.visitDayCode = dayCode
  IN SelectSeq(routePoints, OnDay)

\* routePoints.filter(visitDayCode === dayCode).filter(pointMatchesCycleWeek)
DuePoints(routePoints, dayCode, isoWeek) ==
  LET Due(p) == /\ p.visitDayCode = dayCode
                /\ pointMatchesCycleWeek(p.frequencyCode, isoWeek)
  IN SelectSeq(routePoints, Due)

\* the tasks of one week offset: one per day code that has a due location
RECURSIVE DayTasks(_, _, _, _, _)
DayTasks(c, routePoints, weekOffset, dayList, k) ==
  IF k > Len(dayList) THEN <<>>
  ELSE LET dayCode == dayList[k]
           isoWeek == getTargetIsoWeekFromOffset(weekOffset, c.curWeek,
                                                 c.yearWeeks)
           pts == DuePoints(routePoints, dayCode, isoWeek)
           more == DayTasks(c, routePoints, weekOffset, dayList, k + 1)
       IN IF dayCode \in {6, 7} \/ Len(pts) = 0 THEN more
          ELSE <<[route |-> c.sectionRoute, dayCode |-> dayCode,
                  weekOffset |-> weekOffset, isoWeek |-> isoWeek,
                  weekKey |-> getWeekKeyFromIsoWeek(isoWeek),
                  points |-> pts]>> \o more

RECURSIVE WeekTasks(_, _, _, _, _)
WeekTasks(c, routePoints, weekList, dayList, k) ==
  IF k > Len(weekList) THEN <<>>
  ELSE DayTasks(c, routePoints, weekList[k], dayList, 1)
       \o WeekTasks(c, routePoints, weekList, dayList, k + 1)

\* const tasks = useMemo(...); variant "B" is the copy of the modal kept in
\* components/modals/TerritoryMileageModal.tsx, which has no scope
Tasks(c, pts) ==
  IF ~baseOk(c) THEN <<>>
  ELSE LET sc == singleContext(c)
           single == c.variant = "A" /\ c.scope = "single"
           dayList == IF single
                      THEN (IF sc # None THEN <<sc[1].dayCode>> ELSE <<>>)
                      ELSE selectedDayCodes(c)
           weekList == IF single
                       THEN (IF sc # None THEN <<sc[1].weekOffset>> ELSE <<>>)
                       ELSE selectedWeekOffsets(c)
           OnRoute(p) == p.route = c.sectionRoute
           routePoints == SelectSeq(pts, OnRoute)
       IN IF Len(dayList) = 0 \/ Len(weekList) = 0 THEN <<>>
          ELSE SortTasks(WeekTasks(c, routePoints, weekList, dayList, 1))

(***************************************************************************)
(* osrmRoute (utils/osrm.ts).                                              *)
(*   net = "none"      no call is active                                   *)
(*         "fetching"  awaiting fetch(url, {signal: controller.signal})    *)
(*         "json"      awaiting res.json()                                 *)
(*         "done"      the awaited promise has settled with fetchOutcome   *)
(*                     and the continuation of osrmRoute is queued         *)
(***************************************************************************)
Pending == net \in {"fetching", "json"}

\* no continuation is queued: the event loop may run the next macrotask
QueueEmpty ==
  /\ net \in {"none", "fetching", "json"}
  /\ pc \in {"idle", "s_await", "b_await", "d_await", "b_end"}

\* faulty variant of AbortedAtCall: signal.aborted is not looked at
AbortedAtCallIgnored(hasSig, sigAb) == FALSE

\* if (signal) { if (signal.aborted) controller.abort(); ... }
AbortedAtCall(hasSig, sigAb) == hasSig /\ sigAb

\* if (signal) { ... else signal.addEventListener('abort', onExternalAbort) }
ListenerAtCall(hasSig, sigAb) == hasSig /\ ~sigAb

\* faulty variant of onExternalAbort: the listener does not abort
onExternalAbortNoop(aborted) == aborted

\* onExternalAbort: controller.signal.aborted once the listener has run
onExternalAbort(aborted) == TRUE

\* the timer callback: <<timedOut, controller.signal.aborted>> once it has run
onTimeout(tOut, aborted) == <<TRUE, TRUE>>

\* faulty variant of osrmCatch: any abort is taken for the timeout
osrmCatchAnyAbort(e, tOut) == IF e = "AbortError" THEN "timeout" ELSE e

\* catch (e) { if (timedOut) throw timeout error; throw e; }
osrmCatch(e, tOut) == IF tOut THEN "timeout" ELSE e

\* the routes the provider may answer with (metres, seconds)
RouteResponses ==
  {[distance |-> 1250, duration |-> 95], [distance |-> 12349, duration |-> 1230]}

NoRoute == [distance |-> 0, duration |-> 0]

\* the synchronous part of osrmRoute, up to await fetch(...)
OsrmCall(coordsLen) ==
  IF coordsLen < 2
  THEN /\ net' = "done"
       /\ fetchOutcome' = "coords"
       /\ timedOut' = FALSE
       /\ routeRes' = NoRoute
       /\ osrmResult' = "none"
       /\ timerArmed' = FALSE
       /\ ctrlAborted' = FALSE
       /\ listenerOn' = FALSE
       /\ abortCause' = "none"
       /\ UNCHANGED <<reqStarted, reqAfterAbort>>
  ELSE LET aborted == AbortedAtCall(hasSignal, sigAborted)
       IN /\ ctrlAborted' = aborted
          /\ listenerOn' = ListenerAtCall(hasSignal, sigAborted)
          /\ timedOut' = FALSE
          /\ timerArmed' = TRUE
          /\ abortCause' = IF aborted THEN "caller" ELSE "none"
          /\ IF aborted
             THEN /\ net' = "done"
                  /\ fetchOutcome' = "AbortError"
                  /\ UNCHANGED <<reqStarted, reqAfterAbort>>
             ELSE /\ net' = "fetching"
                  /\ fetchOutcome' = "none"
                  /\ reqStarted' = reqStarted + 1
                  /\ reqAfterAbort' = IF hasSignal /\ sigAborted
                                      THEN reqAfterAbort + 1
                                      ELSE reqAfterAbort
          /\ routeRes' = NoRoute
          /\ osrmResult' = "none"

\* the caller's signal fires 'abort': signal.aborted becomes true and the
\* listener, if registered, runs once
SignalAbort ==
  /\ sigAborted' = TRUE
  /\ IF listenerOn /\ ~sigAborted
     THEN LET aborted == onExternalAbort(ctrlAborted)
          IN /\ ctrlAborted' = aborted
             /\ listenerOn' = FALSE
             /\ IF aborted /\ ~ctrlAborted /\ Pending
                THEN /\ net' = "done"
                     /\ fetchOutcome' = "AbortError"
                     /\ abortCause' = "caller"
                ELSE UNCHANGED <<net, fetchOutcome, abortCause>>
     ELSE UNCHANGED <<ctrlAborted, listenerOn, net, fetchOutcome, abortCause>>
  /\ UNCHANGED <<routeRes, timerArmed, timedOut, osrmResult, reqStarted,
                 reqAfterAbort>>

\* window.setTimeout callback
TimerFire ==
  /\ QueueEmpty
  /\ timerArmed
  /\ LET r == onTimeout(timedOut, ctrlAborted)
     IN /\ timedOut' = r[1]
        /\ ctrlAborted' = r[2]
        /\ IF r[2] /\ ~ctrlAborted /\ Pending
           THEN /\ net' = "done"
                /\ fetchOutcome' = "AbortError"
                /\ abortCause' = "timer"
           ELSE UNCHANGED <<net, fetchOutcome, abortCause>>
  /\ timerArmed' = FALSE
  /\ UNCHANGED <<routeRes, listenerOn, osrmResult, reqStarted, reqAfterAbort>>
  /\ UNCHANGED <<ordVars, caller, pc, sigVars, secVars, progressLog,
                 bulkVars, dirVars, extVars>>

\* the response headers arrive: res.ok, then await res.json()
FetchOk ==
  /\ QueueEmpty
  /\ net = "fetching"
  /\ net' = "json"
  /\ UNCHANGED <<fetchOutcome, routeRes, timerArmed, timedOut, ctrlAborted,
                 listenerOn, osrmResult, abortCause, reqStarted,
                 reqAfterAbort>>
  /\ UNCHANGED <<ordVars, caller, pc, sigVars, secVars, progressLog,
                 bulkVars, dirVars, extVars>>

\* the response is not a success (!res.ok), or fetch rejects with a network
\* error
FetchFail ==
  /\ QueueEmpty
  /\ net = "fetching"
  /\ \E e \in {"http", "network"} : fetchOutcome' = e
  /\ net' = "done"
  /\ UNCHANGED <<routeRes, timerArmed, timedOut, ctrlAborted, listenerOn,
                 osrmResult, abortCause, reqStarted, reqAfterAbort>>
  /\ UNCHANGED <<ordVars, caller, pc, sigVars, secVars, progressLog,
                 bulkVars, dirVars, extVars>>

\* the body arrives with a non-empty routes list
JsonRoutes ==
  /\ QueueEmpty
  /\ net = "json"
  /\ \E r \in RouteResponses : routeRes' = r
  /\ net' = "done"
  /\ fetchOutcome' = "ok"
  /\ UNCHANGED <<timerArmed, timedOut, ctrlAborted, listenerOn, osrmResult,
                 abortCause, reqStarted, reqAfterAbort>>
  /\ UNCHANGED <<ordVars, caller, pc, sigVars, secVars, progressLog,
                 bulkVars, dirVars, extVars>>

\* the body arrives without routes
JsonEmpty ==
  /\ QueueEmpty
  /\ net = "json"
  /\ net' = "done"
  /\ fetchOutcome' = "empty"
  /\ UNCHANGED <<routeRes, timerArmed, timedOut, ctrlAborted, listenerOn,
                 osrmResult, abortCause, reqStarted, reqAfterAbort>>
  /\ UNCHANGED <<ordVars, caller, pc, sigVars, secVars, progressLog,
                 bulkVars, dirVars, extVars>>

ResumeOf(p) ==
  CASE p = "s_await" -> "s_resume"
    [] p = "b_await" -> "b_resume"
    [] p = "d_await" -> "d_resume"
    [] OTHER -> p

\* faulty variant of SuspendAt: osrmRoute is called without await
SuspendAtNowhere(p) == p

\* await osrmRoute(...): the caller is suspended until the call settles
SuspendAt(p) ==
  CASE p = "s_loop" -> "s_await"
    [] p = "b_loop" -> "b_await"
    [] p = "idle" -> "d_await"
    [] OTHER -> p

\* faulty variant of removeEventListener: the listener stays on the signal
removeEventListenerSkipped(on) == on

\* finally: if (signal) signal.removeEventListener('abort', onExternalAbort)
removeEventListener(on) == FALSE

\* the continuation of osrmRoute: return, or catch, then finally
OsrmSettle ==
  /\ net = "done"
  /\ osrmResult' = IF fetchOutcome \in {"ok", "coords"} THEN fetchOutcome
                   ELSE osrmCatch(fetchOutcome, timedOut)
  /\ timerArmed' = FALSE
  /\ listenerOn' = removeEventListener(listenerOn)
  /\ net' = "none"
  /\ pc' = ResumeOf(pc)
  /\ UNCHANGED <<fetchOutcome, routeRes, timedOut, ctrlAborted, abortCause,
                 reqStarted, reqAfterAbort>>
  /\ UNCHANGED <<ordVars, caller, sigVars, secVars, progressLog, bulkVars,
                 dirVars, extVars>>

(***************************************************************************)
(* Section run: RoadMileageModal.run (RoadMileageModal.tsx; variant "B" is *)
(* the copy in components/modals/TerritoryMileageModal.tsx, which has no   *)
(* scope, no canRun and no cancel button).                                 *)
(*   pc = "idle"      no run is executing                                  *)
(*        "s_loop"    at the head of the for loop                          *)
(*        "s_await"   awaiting osrmRoute                                   *)
(*        "s_resume"  osrmRoute has settled, the continuation is queued    *)
(***************************************************************************)
NoOrders == [p \in PointIds |-> [k \in WeekKeys |-> NoRank]]

\* faulty variant of ProgressEvent: total counts the remaining tasks
ProgressEventRemaining(done, ts) == [done |-> done, total |-> Len(ts) - done]

\* setProgress({ done, total: tasks.length }) / onProgress({ done, total })
ProgressEvent(done, ts) == [done |-> done, total |-> Len(ts)]

\* the checks of run() before setIsRunning(true): "ok", "silent" (return
\* without a message) or the message passed to setError
RunConfigCheck(c, t) ==
  IF c.variant = "A"
  THEN IF ~canRun(c)
       THEN (IF c.scope = "single" THEN "select one day and one week"
             ELSE "check section mode and route")
       ELSE IF c.sectionRoute = "" THEN "no route selected"
       ELSE IF c.startPoint = None THEN "no start point"
       ELSE IF Len(t) = 0 THEN "no points to calculate"
       ELSE "ok"
  ELSE IF ~baseOk(c) THEN "silent"
       ELSE IF c.startPoint = None THEN "no start point"
       ELSE IF Len(t) = 0 THEN "no points to calculate"
       ELSE "ok"

\* faulty variant of RecordOrder: the rank counts from the end of the order
RecordOrderFromEnd(orders, ord, weekKey) ==
  [p \in PointIds |->
     IF \E i \in 1..Len(ord) : ord[i].id = p
     THEN [orders[p] EXCEPT
             ![weekKey] = Len(ord) + 1
                          - (CHOOSE i \in 1..Len(ord) : ord[i].id = p)]
     ELSE orders[p]]

\* for (i...) ordersByPointId[ordered[i].id][t.weekKey] = i + 1
RecordOrder(orders, ord, weekKey) ==
  [p \in PointIds |->
     IF \E i \in 1..Len(ord) : ord[i].id = p
     THEN [orders[p] EXCEPT
             ![weekKey] = CHOOSE i \in 1..Len(ord) :
                            /\ ord[i].id = p
                            /\ \A j \in (i + 1)..Len(ord) : ord[j].id # p]
     ELSE orders[p]]

\* const rep: RoadMileageReport = {...}
MkReport(t, ord, res, orderMode) ==
  LET stops == [i \in 1..Len(ord) |->
                  [pointId |-> ord[i].id,
                   visitMinutes |-> normalizeVisitMinutes(ord[i].visitMinutes)]]
      driveMinutes == toIntMinutes(res.duration)
      serviceMinutes ==
        SumSeq([i \in 1..Len(ord) |-> normalizeVisitMinutes(ord[i].visitMinutes)])
  IN [route |-> t.route, dayCode |-> t.dayCode, weekKey |-> t.weekKey,
      isoWeek |-> t.isoWeek, orderMode |-> orderMode, orderSaved |-> FALSE,
      stops |-> stops, driveKm |-> round1Km(res.distance),
      driveMinutes |-> driveMinutes, serviceMinutes |-> serviceMinutes,
      totalMinutes |-> driveMinutes + serviceMinutes]

\* faulty variant of sectionCatch: the catch block swallows the error
sectionCatchSilent(variant, e) == ""

\* catch (e) of run(): the message passed to setError
sectionCatch(variant, e) ==
  IF variant = "A" /\ e = "AbortError" THEN "cancelled by user" ELSE e

\* faulty variant of NewController: the controller is not kept in abortRef
NewControllerDropped(run) == None

\* const controller = new AbortController(); abortRef.current = controller
NewController(run) == Some(run)

\* faulty variant of DraftsAtStart: the drafts of the run before are kept
DraftsAtStartKept(old) == old

\* setDraftReports(null); setDraftOrders(null)
DraftsAtStart(old) == None

\* run(), from the click to the head of the loop
Run ==
  /\ caller = "section"
  /\ open
  /\ pc = "idle"
  /\ ~isRunning
  /\ runs < MaxRuns
  /\ runs' = runs + 1
  /\ draftReports' = DraftsAtStart(draftReports)
  /\ draftOrders' = DraftsAtStart(draftOrders)
  /\ LET t == Tasks(cfg, dataPoints)
         chk == RunConfigCheck(cfg, t)
     IN IF chk # "ok"
        THEN /\ error' = IF chk = "silent" THEN "" ELSE chk
             /\ UNCHANGED <<pc, isRunning, progressLog, abortRef, sigAborted,
                            tasks, reports, ordersByPointId, idx,
                            reqStarted, reqAfterAbort>>
        ELSE /\ error' = ""
             /\ tasks' = t
             /\ isRunning' = TRUE
             /\ progressLog' = <<ProgressEvent(0, t)>>
             /\ abortRef' = NewController(runs + 1)
             /\ sigAborted' = FALSE
             /\ reports' = <<>>
             /\ ordersByPointId' = NoOrders
             /\ idx' = 0
             /\ reqStarted' = 0
             /\ reqAfterAbort' = 0
             /\ pc' = "s_loop"
  /\ UNCHANGED <<net, fetchOutcome, routeRes, timerArmed, timedOut,
                 ctrlAborted, listenerOn, osrmResult, abortCause>>
  /\ UNCHANGED <<ordVars, caller, hasSignal, cfg, dataPoints, curOrdered,
                 bulkVars, dirVars, extVars>>

\* one pass of the loop up to await osrmRoute(...), or the code after the
\* loop with the finally block
SectionIter ==
  /\ pc = "s_loop"
  /\ IF idx < Len(tasks)
     THEN LET t == tasks[idx + 1]
              ord == buildOrder(cfg.orderMode, t.weekKey, cfg.startPoint[1],
                                t.points)
          IN /\ progressLog' = Append(progressLog, ProgressEvent(idx, tasks))
             /\ curOrdered' = ord
             /\ ordersByPointId' = RecordOrder(ordersByPointId, ord, t.weekKey)
             /\ OsrmCall(Len(ord) + 2)
             /\ pc' = SuspendAt(pc)
             /\ UNCHANGED <<isRunning, draftReports, draftOrders, abortRef>>
     ELSE /\ draftReports' = Some(reports)
          /\ draftOrders' = Some(ordersByPointId)
          /\ isRunning' = FALSE
          /\ abortRef' = None
          /\ pc' = "idle"
          /\ UNCHANGED <<progressLog, curOrdered, ordersByPointId, osrmVars>>
  /\ UNCHANGED <<ordVars, caller, sigVars, cfg, dataPoints, tasks, error, idx,
                 reports, runs, bulkVars, dirVars, extVars>>

\* faulty variant of Throws: an empty route list does not throw
ThrowsUnlessEmpty(result) == result \notin {"ok", "empty"}

\* await osrmRoute(...) throws: control leaves the loop for the catch block
Throws(result) == result # "ok"

\* the continuation of run() after await osrmRoute(...): the rest of the
\* loop body, or catch and finally
SectionResume ==
  /\ pc = "s_resume"
  /\ IF ~Throws(osrmResult)
     THEN /\ reports' = Append(reports, MkReport(tasks[idx + 1], curOrdered,
                                                 routeRes, cfg.orderMode))
          /\ progressLog' = Append(progressLog,
                                   ProgressEvent(idx + 1, tasks))
          /\ idx' = idx + 1
          /\ pc' = "s_loop"
          /\ UNCHANGED <<error, isRunning, abortRef>>
     ELSE /\ error' = sectionCatch(cfg.variant, osrmResult)
          /\ isRunning' = FALSE
          /\ abortRef' = None
          /\ pc' = "idle"
          /\ UNCHANGED <<reports, progressLog, idx>>
  /\ UNCHANGED <<ordVars, caller, osrmVars, sigVars, cfg, dataPoints, tasks,
                 draftReports, draftOrders, curOrdered, ordersByPointId, runs,
                 bulkVars, dirVars, extVars>>

\* cancel(): abortRef.current?.abort(); the button is shown while isRunning
Cancel ==
  /\ caller = "section"
  /\ cfg.variant = "A"
  /\ open
  /\ isRunning
  /\ QueueEmpty
  /\ IF abortRef # None THEN SignalAbort
     ELSE UNCHANGED <<osrmVars, sigAborted>>
  /\ UNCHANGED <<ordVars, caller, pc, hasSignal, secVars, progressLog,
                 bulkVars, dirVars, extVars>>

(***************************************************************************)
(* Section modal: closing, reopening and the two save handlers.  onClose   *)
(* (the backdrop, the close buttons, the end of a save handler) sets       *)
(* props.open to false; the modal stays mounted and a run in flight goes   *)
(* on.  The effect on [open] of RoadMileageModal.tsx resets the state and  *)
(* aborts abortRef.current; the copy in TerritoryMileageModal.tsx has no   *)
(* such effect.                                                            *)
(***************************************************************************)
\* the modal has the effect on [open] that resets its state
HasOpenEffect(variant) == variant = "A"

\* faulty variant of OpenEffectAborts: the effect resets without aborting
OpenEffectNeverAborts(ref) == FALSE

\* abortRef.current?.abort()
OpenEffectAborts(ref) == ref # None

Close ==
  /\ caller = "section"
  /\ open
  /\ QueueEmpty
  /\ open' = FALSE
  /\ UNCHANGED <<roadMileageReports, territoryCalcRuns, lastSave,
                 pointsBefore, saves, reopenAborts>>
  /\ UNCHANGED <<ordVars, caller, pc, osrmVars, sigVars, secVars, progressLog,
                 bulkVars, dirVars, terrVars, cycVars>>

Reopen ==
  /\ caller = "section"
  /\ ~open
  /\ QueueEmpty
  /\ open' = TRUE
  /\ IF HasOpenEffect(cfg.variant)
     THEN /\ error' = ""
          /\ isRunning' = FALSE
          /\ draftReports' = None
          /\ draftOrders' = None
          /\ cfg' = [cfg EXCEPT !.orderMode = "useExistingAndFill",
                                !.scope = "full"]
          /\ abortRef' = None
          /\ progressLog' = <<>>
          /\ IF OpenEffectAborts(abortRef)
             THEN /\ SignalAbort
                  /\ reopenAborts' = reopenAborts + 1
             ELSE UNCHANGED <<osrmVars, sigAborted, reopenAborts>>
     ELSE UNCHANGED <<error, isRunning, draftReports, draftOrders, cfg,
                      abortRef, progressLog, osrmVars, sigAborted,
                      reopenAborts>>
  /\ UNCHANGED <<roadMileageReports, territoryCalcRuns, lastSave,
                 pointsBefore, saves>>
  /\ UNCHANGED <<ordVars, caller, pc, hasSignal, dataPoints, tasks, idx,
                 curOrdered, reports, ordersByPointId, runs, bulkVars,
                 dirVars, terrVars, cycVars>>

\* dayCode and weekKey 'ALL' of a combined report
ALL == 0

\* data.roadMileageReports keeps the newest 200 reports
ReportCap == 200

\* [report, ...reports].slice(0, 200)
addRoadMileageReport(store, report) ==
  LET all == <<report>> \o store
  IN IF Len(all) > ReportCap THEN SubSeq(all, 1, ReportCap) ELSE all

RECURSIVE Concat(_)
Concat(ss) == IF Len(ss) = 0 THEN <<>> ELSE Head(ss) \o Concat(Tail(ss))

\* faulty variant of buildCombinedReport: the minutes of the first report
\* are kept
buildCombinedReportStale(reps) ==
  [reps[1] EXCEPT
     !.dayCode = ALL,
     !.weekKey = ALL,
     !.stops = Concat([i \in 1..Len(reps) |-> reps[i].stops])]

\* buildCombinedReport of the copy in TerritoryMileageModal.tsx; driveKm is
\* in tenths of a kilometre
buildCombinedReport(reps) ==
  LET base == reps[1]
      driveMinutes ==
        SumSeq([i \in 1..Len(reps) |-> reps[i].driveMinutes])
      serviceMinutes ==
        SumSeq([i \in 1..Len(reps) |-> reps[i].serviceMinutes])
  IN [base EXCEPT
        !.dayCode = ALL,
        !.weekKey = ALL,
        !.stops = Concat([i \in 1..Len(reps) |-> reps[i].stops]),
        !.driveKm = SumSeq([i \in 1..Len(reps) |-> reps[i].driveKm]),
        !.driveMinutes = driveMinutes,
        !.serviceMinutes = serviceMinutes,
        !.totalMinutes = driveMinutes + serviceMinutes]

\* for (const r of draftReports) addRoadMileageReport({...r, orderSaved})
RECURSIVE StoreEach(_, _, _)
StoreEach(store, reps, saved) ==
  IF Len(reps) = 0 THEN store
  ELSE StoreEach(addRoadMileageReport(store,
                                      [Head(reps) EXCEPT !.orderSaved = saved]),
                 Tail(reps), saved)

\* what a save handler of the section modal does to the report store
StoreReports(variant, store, reps, saved) ==
  IF variant = "A" THEN StoreEach(store, reps, saved)
  ELSE addRoadMileageReport(store, [buildCombinedReport(reps) EXCEPT
                                      !.orderSaved = saved])

\* faulty variant of MergeRanks: the planned ranks replace the whole map
MergeRanksReplace(old, upd) == upd

\* { ...(p.visitOrderByWeek || {}), ...upd }
MergeRanks(old, upd) ==
  [k \in WeekKeys |-> IF upd[k] # NoRank THEN upd[k] ELSE old[k]]

\* data.points.map((p) => draftOrders[p.id] ? {...p, visitOrderByWeek} : p)
ApplyOrders(pts, orders) ==
  [i \in 1..Len(pts) |->
     [pts[i] EXCEPT !.visitOrderByWeek = MergeRanks(@, orders[pts[i].id])]]

\* faulty variant of PointsOnReject: the planned order is written anyway
PointsOnRejectApplied(pts, orders) == ApplyOrders(pts, orders)

\* saveWithoutOrder never calls updatePoints
PointsOnReject(pts, orders) == pts

saveWithoutOrder ==
  /\ caller = "section"
  /\ open
  /\ QueueEmpty
  /\ saves < MaxSaves
  /\ draftReports # None
  /\ roadMileageReports' = StoreReports(cfg.variant, roadMileageReports,
                                        draftReports[1], FALSE)
  /\ dataPoints' = PointsOnReject(dataPoints,
                                  IF draftOrders = None THEN NoOrders
                                  ELSE draftOrders[1])
  /\ open' = FALSE
  /\ lastSave' = "reject"
  /\ pointsBefore' = dataPoints
  /\ saves' = saves + 1
  /\ UNCHANGED <<territoryCalcRuns, reopenAborts>>
  /\ UNCHANGED <<ordVars, caller, pc, osrmVars, sigVars, cfg, tasks,
                 isRunning, error, draftReports, draftOrders, abortRef, idx,
                 curOrdered, reports, ordersByPointId, runs, progressLog,
                 bulkVars, dirVars, terrVars, cycVars>>

saveWithOrder ==
  /\ caller = "section"
  /\ open
  /\ QueueEmpty
  /\ saves < MaxSaves
  /\ draftReports # None
  /\ draftOrders # None
  /\ cfg.variant = "A" => Len(draftReports[1]) # 0
  /\ dataPoints' = ApplyOrders(dataPoints, draftOrders[1])
  /\ roadMileageReports' = StoreReports(cfg.variant, roadMileageReports,
                                        draftReports[1], TRUE)
  /\ open' = FALSE
  /\ lastSave' = "accept"
  /\ pointsBefore' = dataPoints
  /\ saves' = saves + 1
  /\ UNCHANGED <<territoryCalcRuns, reopenAborts>>
  /\ UNCHANGED <<ordVars, caller, pc, osrmVars, sigVars, cfg, tasks,
                 isRunning, error, draftReports, draftOrders, abortRef, idx,
                 curOrdered, reports, ordersByPointId, runs, progressLog,
                 bulkVars, dirVars, terrVars, cycVars>>

(***************************************************************************)
(* Territory modal (components/modals/TerritoryMileageModal.tsx) and       *)
(* buildTerritoryRun (utils/territoryRun.ts).  compute() has no await: the *)
(* whole handler is one step.  visiblePoints is the prop filteredPoints of *)
(* pages/MapPage.tsx.                                                      *)
(***************************************************************************)
\* the route, day and cycle filters of filteredPoints in territory mode; the
\* cycle filter matches against currentISOWeek + weekOffset
filteredPoints(pts, c) ==
  LET offs == selectedWeekOffsets(c)
      hasZeroFilter == Z0 \in Range(c.cycleWeeks)
      numeric == {x \in Range(c.cycleWeeks) : x # Z0}
      ByRoute(q) == c.routes = {} \/ q.route \in c.routes
      ByDay(q) == Len(c.days) = 0 \/ q.visitDayCode \in Range(c.days)
      ByCycle(q) ==
        IF Len(c.cycleWeeks) = 0 THEN TRUE
        ELSE IF hasZeroFilter /\ numeric = {} THEN q.frequencyCode = "0"
        ELSE \/ \E w \in numeric :
                  pointMatchesCycleWeek(q.frequencyCode, c.curWeek + w)
             \/ hasZeroFilter /\ q.frequencyCode = "0"
      Visible(q) == ByRoute(q) /\ ByDay(q) /\ ByCycle(q)
  IN SelectSeq(pts, Visible)

\* Array.from(new Set(visiblePoints.map(p => p.route).filter(Boolean))).sort()
RouteOrder == <<"R1", "R2">>

activeRoutes(vp) ==
  LET Active(r) == \E i \in 1..Len(vp) : vp[i].route = r
  IN SelectSeq(RouteOrder, Active)

missingStarts(ar, sb) ==
  LET Missing(r) == sb[r] = None
  IN SelectSeq(ar, Missing)

routesToCalc(ar, sb) ==
  LET HasStart(r) == sb[r] # None
  IN SelectSeq(ar, HasStart)

\* kilometres per degree of latitude on the meridian (R * pi / 180, rounded)
KmPerDegree == 111

\* the closed straight-line path start -> stops -> start, in degrees
RECURSIVE PathDegrees(_, _, _, _)
PathDegrees(start, ordered, i, curLat) ==
  IF i > Len(ordered)
  THEN (IF Len(ordered) > 0
        THEN haversineDistance(curLat, 0, start.lat, start.lon) ELSE 0)
  ELSE haversineDistance(curLat, 0, ordered[i].lat, ordered[i].lon)
       + PathDegrees(start, ordered, i + 1, ordered[i].lat)

\* round1(km) in tenths of a kilometre, km = 1.3 * the haversine path
StraightKm(deg) == KmPerDegree * 13 * deg

\* toIntMinutes((km / 40) * 60)
StraightMinutes(deg) == (KmPerDegree * 13 * 15 * deg + 50) \div 100

\* combos.push({...}) of buildTerritoryRun
TerritoryCombo(c, start, weekOffset, dayCode, dayPoints, orderMode) ==
  LET isoWeek == getTargetIsoWeekFromOffset(weekOffset, c.curWeek, c.yearWeeks)
      weekKey == getWeekKeyFromIsoWeek(isoWeek)
      ordered == buildOrder(orderMode, weekKey, start, dayPoints)
      deg == PathDegrees(start, ordered, 1, start.lat)
      driveMinutes == StraightMinutes(deg)
      stops == [i \in 1..Len(ordered) |->
                  [pointId |-> ordered[i].id,
                   visitMinutes |->
                     normalizeVisitMinutes(ordered[i].visitMinutes)]]
      serviceMinutes ==
        SumSeq([i \in 1..Len(stops) |-> stops[i].visitMinutes])
  IN [weekOffset |-> weekOffset, isoWeek |-> isoWeek, weekKey |-> weekKey,
      dayCode |-> dayCode, orderMode |-> orderMode, stops |-> stops,
      straight |-> [distanceKm |-> StraightKm(deg),
                    driveMinutes |-> driveMinutes,
                    serviceMinutes |-> serviceMinutes,
                    totalMinutes |-> driveMinutes + serviceMinutes]]

\* for (const dayCode of dayCodes) {...}
RECURSIVE TerritoryDayCombos(_, _, _, _, _, _, _)
TerritoryDayCombos(c, start, pointsInWeek, weekOffset, dayList, orderMode, k) ==
  IF k > Len(dayList) THEN <<>>
  ELSE LET dayCode == dayList[k]
           OnDay(q) == q.visitDayCode = dayCode
           dayPoints == SelectSeq(pointsInWeek, OnDay)
           more == TerritoryDayCombos(c, start, pointsInWeek, weekOffset,
                                      dayList, orderMode, k + 1)
       IN IF Len(dayPoints) = 0 THEN more
          ELSE <<TerritoryCombo(c, start, weekOffset, dayCode, dayPoints,
                                orderMode)>> \o more

\* for (const weekOffset of weekOffsets) {...}: the combos in push order
RECURSIVE TerritoryWeekCombos(_, _, _, _, _, _, _)
TerritoryWeekCombos(c, start, routePointsAll, weekList, dayList, orderMode, k) ==
  IF k > Len(weekList) THEN <<>>
  ELSE LET isoWeek == getTargetIsoWeekFromOffset(weekList[k], c.curWeek,
                                                 c.yearWeeks)
           InWeek(q) == pointMatchesCycleWeek(q.frequencyCode, isoWeek)
           pointsInWeek == SelectSeq(routePointsAll, InWeek)
       IN TerritoryDayCombos(c, start, pointsInWeek, weekList[k], dayList,
                             orderMode, 1)
          \o TerritoryWeekCombos(c, start, routePointsAll, weekList, dayList,
                                 orderMode, k + 1)

\* planned.push({ weekKey, dayCode, orderedPointIds }), in push order
PlannedOf(combos) ==
  [i \in 1..Len(combos) |->
     [weekKey |-> combos[i].weekKey, dayCode |-> combos[i].dayCode,
      orderedPointIds |->
        [n \in 1..Len(combos[i].stops) |-> combos[i].stops[n].pointId]]]

\* buildTerritoryRun; plannedOrdersByRoute lists the routes in insertion order
buildTerritoryRun(c, vp, sb, ar, dayList, weekList, orderMode) ==
  LET rtc == routesToCalc(ar, sb)
      Pushed(r) ==
        LET OnRoute(q) == q.route = r
        IN TerritoryWeekCombos(c, sb[r][1], SelectSeq(vp, OnRoute), weekList,
                               dayList, orderMode, 1)
  IN [run |-> [orderMode |-> orderMode, orderSaved |-> FALSE,
               missingStartRoutes |-> missingStarts(ar, sb),
               routes |-> [i \in 1..Len(rtc) |->
                             [route |-> rtc[i], startPoint |-> sb[rtc[i]][1],
                              combos |-> SortTasks(Pushed(rtc[i]))]]],
      plannedOrdersByRoute |-> [i \in 1..Len(rtc) |-> PlannedOf(Pushed(rtc[i]))]]

\* data.territoryCalcRuns keeps the newest 50 runs
RunCap == 50

\* [run, ...runs].slice(0, 50)
addTerritoryCalcRun(store, run) ==
  LET all == <<run>> \o store
  IN IF Len(all) > RunCap THEN SubSeq(all, 1, RunCap) ELSE all

\* the button "compute" is disabled
ComputeDisabled(running, ar, sb) ==
  running \/ Len(ar) = 0 \/ Len(ar) = Len(missingStarts(ar, sb))

\* the checks of compute() before setIsRunning(true)
ComputeConfigCheck(ar, sb) ==
  IF Len(ar) = 0 THEN "no points on the map"
  ELSE IF Len(missingStarts(ar, sb)) > 0 /\ Len(routesToCalc(ar, sb)) = 0
  THEN "no active route has a start point"
  ELSE "ok"

\* compute()
Compute ==
  /\ caller = "territory"
  /\ open
  /\ cfg.mapMode = "territory"
  /\ runs < MaxRuns
  /\ LET ar == activeRoutes(visiblePoints)
         chk == ComputeConfigCheck(ar, startByRoute)
     IN /\ ~ComputeDisabled(isRunning, ar, startByRoute)
        /\ IF chk # "ok"
           THEN /\ error' = chk
                /\ UNCHANGED draft
           ELSE /\ error' = ""
                /\ draft' = Some(buildTerritoryRun(cfg, visiblePoints,
                                                   startByRoute, ar,
                                                   selectedDayCodes(cfg),
                                                   selectedWeekOffsets(cfg),
                                                   cfg.orderMode))
  /\ runs' = runs + 1
  /\ isRunning' = FALSE
  /\ UNCHANGED <<visiblePoints, startByRoute>>
  /\ UNCHANGED <<ordVars, caller, pc, osrmVars, sigVars, cfg, dataPoints,
                 tasks, draftReports, draftOrders, abortRef, idx, curOrdered,
                 reports, ordersByPointId, progressLog, bulkVars, dirVars,
                 storeVars, cycVars>>

\* cur[o.weekKey] = i + 1 for the ids of one planned order
RecordIds(orders, ids, weekKey) ==
  [q \in PointIds |->
     IF \E i \in 1..Len(ids) : ids[i] = q
     THEN [orders[q] EXCEPT
             ![weekKey] = CHOOSE i \in 1..Len(ids) :
                            /\ ids[i] = q
                            /\ \A j \in (i + 1)..Len(ids) : ids[j] # q]
     ELSE orders[q]]

\* for (const o of orders) {...}
RECURSIVE RecordPlanned(_, _, _)
RecordPlanned(orders, planned, k) ==
  IF k > Len(planned) THEN orders
  ELSE RecordPlanned(RecordIds(orders, planned[k].orderedPointIds,
                               planned[k].weekKey),
                     planned, k + 1)

\* for (const orders of Object.values(draft.plannedOrdersByRoute)) {...}
RECURSIVE updatesById(_, _, _)
updatesById(orders, byRoute, k) ==
  IF k > Len(byRoute) THEN orders
  ELSE updatesById(RecordPlanned(orders, byRoute[k], 1), byRoute, k + 1)

\* onClose of the territory modal
TerritoryClose ==
  /\ caller = "territory"
  /\ open
  /\ open' = FALSE
  /\ UNCHANGED <<roadMileageReports, territoryCalcRuns, lastSave,
                 pointsBefore, saves, reopenAborts>>
  /\ UNCHANGED <<ordVars, caller, pc, osrmVars, sigVars, secVars, progressLog,
                 bulkVars, dirVars, terrVars, cycVars>>

\* the effect on [open] of the territory modal
TerritoryReopen ==
  /\ caller = "territory"
  /\ ~open
  /\ open' = TRUE
  /\ cfg' = [cfg EXCEPT !.orderMode = "useExistingAndFill"]
  /\ isRunning' = FALSE
  /\ error' = ""
  /\ draft' = None
  /\ UNCHANGED <<visiblePoints, startByRoute>>
  /\ UNCHANGED <<roadMileageReports, territoryCalcRuns, lastSave,
                 pointsBefore, saves, reopenAborts>>
  /\ UNCHANGED <<ordVars, caller, pc, osrmVars, sigVars, dataPoints, tasks,
                 draftReports, draftOrders, abortRef, idx, curOrdered, reports,
                 ordersByPointId, runs, progressLog, bulkVars, dirVars,
                 cycVars>>

\* saveWithoutOrder of the territory modal
TerritorySaveWithoutOrder ==
  /\ caller = "territory"
  /\ open
  /\ saves < MaxSaves
  /\ draft # None
  /\ territoryCalcRuns' =
       addTerritoryCalcRun(territoryCalcRuns,
                           [draft[1].run EXCEPT !.orderSaved = FALSE])
  /\ dataPoints' = PointsOnReject(dataPoints,
                                  updatesById(NoOrders,
                                              draft[1].plannedOrdersByRoute, 1))
  /\ visiblePoints' = filteredPoints(dataPoints', cfg)
  /\ open' = FALSE
  /\ lastSave' = "reject"
  /\ pointsBefore' = dataPoints
  /\ saves' = saves + 1
  /\ UNCHANGED <<roadMileageReports, reopenAborts, startByRoute, draft>>
  /\ UNCHANGED <<ordVars, caller, pc, osrmVars, sigVars, cfg, tasks,
                 isRunning, error, draftReports, draftOrders, abortRef, idx,
                 curOrdered, reports, ordersByPointId, runs, progressLog,
                 bulkVars, dirVars, cycVars>>

\* saveWithOrder of the territory modal
TerritorySaveWithOrder ==
  /\ caller = "territory"
  /\ open
  /\ saves < MaxSaves
  /\ draft # None
  /\ dataPoints' = ApplyOrders(dataPoints,
                               updatesById(NoOrders,
                                           draft[1].plannedOrdersByRoute, 1))
  /\ visiblePoints' = filteredPoints(dataPoints', cfg)
  /\ territoryCalcRuns' =
       addTerritoryCalcRun(territoryCalcRuns,
                           [draft[1].run EXCEPT !.orderSaved = TRUE])
  /\ open' = FALSE
  /\ lastSave' = "accept"
  /\ pointsBefore' = dataPoints
  /\ saves' = saves + 1
  /\ UNCHANGED <<roadMileageReports, reopenAborts, startByRoute, draft>>
  /\ UNCHANGED <<ordVars, caller, pc, osrmVars, sigVars, cfg, tasks,
                 isRunning, error, draftReports, draftOrders, abortRef, idx,
                 curOrdered, reports, ordersByPointId, runs, progressLog,
                 bulkVars, dirVars, cycVars>>

(***************************************************************************)
(* Bulk run: computeTerritoryRunRoads (utils/territoryRoad.ts).            *)
(*   pc = "b_loop"    at the head of the for loop                          *)
(*        "b_await"   awaiting osrmRoute                                   *)
(*        "b_resume"  osrmRoute has settled, the continuation is queued    *)
(*        "b_end"     the promise of computeTerritoryRunRoads has settled  *)
(* run.routes is a sequence of routes, a route the sequence of its combos. *)
(***************************************************************************)
DefaultMaxStops == 25

\* const { maxStopsPerCombo = 25 } = params
maxStopsPerCombo(param) == IF param = None THEN DefaultMaxStops ELSE param[1]

\* const need = !c.road || c.road.status !== 'ok'
NeedsRoad(c) == c.road = None \/ c.road[1].status # "ok"

\* the tasks of one route, in combo order
RECURSIVE RouteTasks(_, _, _)
RouteTasks(rr, ri, ci) ==
  IF ci > Len(rr) THEN <<>>
  ELSE IF NeedsRoad(rr[ci]) /\ Len(rr[ci].stops) # 0
       THEN <<[routeIdx |-> ri, comboIdx |-> ci]>> \o RouteTasks(rr, ri, ci + 1)
       ELSE RouteTasks(rr, ri, ci + 1)

RECURSIVE BuildTasks(_, _)
BuildTasks(run, ri) ==
  IF ri > Len(run) THEN <<>>
  ELSE RouteTasks(run[ri], ri, 1) \o BuildTasks(run, ri + 1)

\* c.stops.reduce((s, x) => s + (Number.isFinite(x.visitMinutes) ? ... : 0), 0)
StopsServiceMinutes(stops) ==
  SumSeq([i \in 1..Len(stops) |->
            IF stops[i].visitMinutes = NaN THEN 0 ELSE stops[i].visitMinutes])

RoadSkipped(serviceMinutes) ==
  [status |-> "skipped", driveKm |-> 0, driveMinutes |-> 0,
   serviceMinutes |-> serviceMinutes, totalMinutes |-> serviceMinutes]

RoadOk(res, serviceMinutes) ==
  [status |-> "ok", driveKm |-> round1Km(res.distance),
   driveMinutes |-> toIntMinutes(res.duration),
   serviceMinutes |-> serviceMinutes,
   totalMinutes |-> toIntMinutes(res.duration) + serviceMinutes]

RoadError(serviceMinutes) ==
  [status |-> "error", driveKm |-> 0, driveMinutes |-> 0,
   serviceMinutes |-> serviceMinutes, totalMinutes |-> serviceMinutes]

\* faulty variant of TooManyStops: the ceiling itself is refused
TooManyStopsInclusive(n, ceiling) == n >= ceiling

\* if (c.stops.length > maxStopsPerCombo)
TooManyStops(n, ceiling) == n > ceiling

\* if (signal?.aborted) throw new DOMException('Aborted', 'AbortError')
AbortedAtBoundary(hasSig, sigAb) == hasSig /\ sigAb

\* faulty variant of RoadOfResult: an empty route list is stored as a route
RoadOfResultLenient(result, res, serviceMinutes) ==
  IF result \in {"ok", "empty"} THEN RoadOk(res, serviceMinutes)
  ELSE RoadError(serviceMinutes)

\* what the try/catch around osrmRoute stores in c.road
RoadOfResult(result, res, serviceMinutes) ==
  IF result = "ok" THEN RoadOk(res, serviceMinutes)
  ELSE RoadError(serviceMinutes)

BulkCombo(t) == bNext[t.routeIdx][t.comboIdx]

\* computeTerritoryRunRoads, from the call to the head of the loop
BulkStart ==
  /\ caller = "bulk"
  /\ pc = "idle"
  /\ LET ts == BuildTasks(bRun, 1)
     IN /\ bTasks' = ts
        /\ progressLog' = <<ProgressEvent(0, ts)>>
        /\ IF Len(ts) = 0
           THEN /\ bResult' = "returned"
                /\ bReturned' = bRun
                /\ pc' = "b_end"
                /\ UNCHANGED <<bNext, bi>>
           ELSE /\ bNext' = bRun
                /\ bi' = 0
                /\ pc' = "b_loop"
                /\ UNCHANGED <<bResult, bReturned>>
  /\ UNCHANGED <<ordVars, caller, osrmVars, sigVars, secVars, bRun, bMaxParam,
                 bReq, bFail, dirVars, extVars>>

\* one pass of the loop up to await osrmRoute(...), or return next
BulkIter ==
  /\ pc = "b_loop"
  /\ IF bi >= Len(bTasks)
     THEN /\ bResult' = "returned"
          /\ bReturned' = bNext
          /\ pc' = "b_end"
          /\ UNCHANGED <<progressLog, bNext, bi, bReq, bFail, osrmVars>>
     ELSE IF AbortedAtBoundary(hasSignal, sigAborted)
     THEN /\ bResult' = "thrown"
          /\ pc' = "b_end"
          /\ UNCHANGED <<progressLog, bNext, bi, bReq, bFail, bReturned,
                         osrmVars>>
     ELSE LET t == bTasks[bi + 1]
              c == BulkCombo(t)
              serviceMinutes == StopsServiceMinutes(c.stops)
          IN IF TooManyStops(Len(c.stops), maxStopsPerCombo(bMaxParam))
             THEN /\ bNext' = [bNext EXCEPT ![t.routeIdx][t.comboIdx].road =
                                 Some(RoadSkipped(serviceMinutes))]
                  /\ progressLog' = progressLog
                       \o <<ProgressEvent(bi, bTasks),
                            ProgressEvent(bi + 1, bTasks)>>
                  /\ bi' = bi + 1
                  /\ bReq' = Append(bReq, 0)
                  /\ bFail' = Append(bFail, "skipped")
                  /\ UNCHANGED <<pc, bResult, bReturned, osrmVars>>
             ELSE /\ progressLog' = Append(progressLog,
                                           ProgressEvent(bi, bTasks))
                  /\ OsrmCall(Len(c.stops) + 2)
                  /\ pc' = SuspendAt(pc)
                  /\ UNCHANGED <<bNext, bi, bReq, bFail, bResult, bReturned>>
  /\ UNCHANGED <<ordVars, caller, sigVars, secVars, bRun, bMaxParam, bTasks,
                 dirVars, extVars>>

\* the continuation after await osrmRoute(...): c.road = ..., onProgress
BulkResume ==
  /\ pc = "b_resume"
  /\ LET t == bTasks[bi + 1]
         c == BulkCombo(t)
         serviceMinutes == StopsServiceMinutes(c.stops)
     IN bNext' = [bNext EXCEPT ![t.routeIdx][t.comboIdx].road =
                    Some(RoadOfResult(osrmResult, routeRes, serviceMinutes))]
  /\ progressLog' = Append(progressLog, ProgressEvent(bi + 1, bTasks))
  /\ bReq' = Append(bReq, reqStarted - SumSeq(bReq))
  /\ bFail' = Append(bFail, osrmResult)
  /\ bi' = bi + 1
  /\ pc' = "b_loop"
  /\ UNCHANGED <<ordVars, caller, osrmVars, sigVars, secVars, bRun, bMaxParam,
                 bTasks, bResult, bReturned, dirVars, extVars>>

\* the owner of the signal passed to computeTerritoryRunRoads or osrmRoute
\* aborts it
CallerAbort ==
  /\ caller \in {"bulk", "direct"}
  /\ hasSignal
  /\ ~sigAborted
  /\ QueueEmpty
  /\ pc # "b_end"
  /\ SignalAbort
  /\ UNCHANGED <<ordVars, caller, pc, hasSignal, secVars, progressLog,
                 bulkVars, dirVars, extVars>>

(***************************************************************************)
(* Direct calls of osrmRoute, with any signal.                             *)
(***************************************************************************)
DirectCall ==
  /\ caller = "direct"
  /\ pc = "idle"
  /\ dCalls < MaxCalls
  /\ dCalls' = dCalls + 1
  /\ \E n \in {1, 3} :
       /\ dCoords' = n
       /\ OsrmCall(n)
  /\ pc' = SuspendAt(pc)
  /\ UNCHANGED <<ordVars, caller, sigVars, secVars, progressLog, bulkVars,
                 extVars>>

DirectResume ==
  /\ pc = "d_resume"
  /\ pc' = "idle"
  /\ UNCHANGED <<ordVars, caller, osrmVars, sigVars, secVars, progressLog,
                 bulkVars, dirVars, extVars>>

(***************************************************************************)
(* Initial states.                                                         *)
(***************************************************************************)
NoRanks == [k \in WeekKeys |-> NoRank]

Loc(id, route, lat, day, freq, visit, ranks) ==
  [id |-> id, route |-> route, lat |-> lat, lon |-> 0, visitDayCode |-> day,
   frequencyCode |-> freq, visitMinutes |-> visit, visitOrderByWeek |-> ranks]

\* data.points of the section modal
DataSets ==
  { <<>>,
    << Loc(1, "R1", 1, 1, "4", 150, NoRanks),
       Loc(2, "R1", 2, 1, "2,1", NaN, NoRanks),
       Loc(3, "R1", 0, 2, "1,3", 204, NoRanks) >>,
    << Loc(1, "R1", 2, 1, "4", 150, [NoRanks EXCEPT ![3] = 2]),
       Loc(2, "R1", 0, 1, "", 100, [NoRanks EXCEPT ![3] = 1, ![4] = 1]),
       Loc(3, "R2", 1, 1, "4", 0, NoRanks) >>,
    << Loc(3, "R1", 2, 1, "4", 150, NoRanks),
       Loc(1, "R1", 0, 1, "2.1", 125, [NoRanks EXCEPT ![4] = 1]),
       Loc(2, "R1", 1, 1, "2,2", 300, NoRanks) >> }

SectionCfgs ==
  [variant : {"A", "B"},
   mapMode : {"section"},
   sectionRoute : {"R1"},
   days : {<<1>>, <<6>>},
   cycleWeeks : {<<0>>},
   scope : {"single", "full"},
   orderMode : {"rebuildNearest"},
   startPoint : {Some([lat |-> 0, lon |-> 0])},
   curWeek : {10},
   yearWeeks : {52}]
  \cup
  [variant : {"A", "B"},
   mapMode : {"section"},
   sectionRoute : {"R1"},
   days : {<<2, 1>>},
   cycleWeeks : {<<1, 0>>, <<Z0>>},
   scope : {"single", "full"},
   orderMode : {"useExistingAndFill"},
   startPoint : {Some([lat |-> 0, lon |-> 0])},
   curWeek : {10},
   yearWeeks : {52}]
  \cup
  [variant : {"A", "B"},
   mapMode : {"section", "territory"},
   sectionRoute : {"R1", ""},
   days : {<<>>},
   cycleWeeks : {<<2, 3>>},
   scope : {"full"},
   orderMode : {"useExistingAndFill"},
   startPoint : {None, Some([lat |-> 1, lon |-> 0])},
   curWeek : {51},
   yearWeeks : {53}]

NoCfg ==
  [variant |-> "A", mapMode |-> "section", sectionRoute |-> "", days |-> <<>>,
   cycleWeeks |-> <<>>, scope |-> "full", orderMode |-> "rebuildNearest",
   startPoint |-> None, curWeek |-> 1, yearWeeks |-> 52]

Routes == {"R1", "R2"}

NoStarts == [r \in Routes |-> None]

\* data.points, filters and data.startPoints of the territory modal
TerritoryData ==
  { << Loc(1, "R1", 2, 1, "4", 150, [NoRanks EXCEPT ![3] = 2]),
       Loc(2, "R1", 0, 1, "", 100, [NoRanks EXCEPT ![3] = 1, ![4] = 1]),
       Loc(3, "R2", 1, 1, "4", 0, NoRanks) >>,
    << Loc(1, "R1", 1, 6, "4", 150, NoRanks),
       Loc(2, "R2", 2, 1, "0", 100, NoRanks),
       Loc(3, "", 1, 2, "4", 100, NoRanks) >>,
    << Loc(3, "R1", 2, 1, "4", 150, NoRanks),
       Loc(1, "R1", 0, 1, "2.1", 125, [NoRanks EXCEPT ![1] = 1]),
       Loc(2, "R1", 1, 2, "1,3", 300, NoRanks) >> }

TerritoryCfgs ==
  [variant : {"T"},
   mapMode : {"territory"},
   routes : {{}, {"R1"}},
   days : {<<>>, <<2, 1>>, <<6>>},
   cycleWeeks : {<<>>, <<1, 0>>, <<Z0>>},
   orderMode : OrderModes,
   curWeek : {10, 51},
   yearWeeks : {53}]

TerritoryStarts ==
  { NoStarts,
    [NoStarts EXCEPT !["R1"] = Some([lat |-> 0, lon |-> 0])],
    [r \in Routes |-> Some([lat |-> 1, lon |-> 0])] }

\* the combos of the runs passed to computeTerritoryRunRoads
StopsOf(n, minutes) == [i \in 1..n |-> [visitMinutes |-> minutes]]

ComboInputs ==
  { [stops |-> <<>>, road |-> None],
    [stops |-> StopsOf(1, 15), road |-> None],
    [stops |-> StopsOf(2, 20), road |-> Some(RoadError(40))],
    [stops |-> StopsOf(1, 30), road |-> Some(RoadOk(NoRoute, 30))],
    [stops |-> StopsOf(DefaultMaxStops, 15), road |-> None],
    [stops |-> StopsOf(DefaultMaxStops + 1, 15), road |-> None],
    [stops |-> StopsOf(40, 10), road |-> None] }

ComboSeqs(maxLen) == UNION {[1..n -> ComboInputs] : n \in 0..maxLen}

FirstRoutes == {<<>>, <<[stops |-> StopsOf(1, 15), road |-> None]>>}

BulkRuns ==
  {<<r1>> : r1 \in ComboSeqs(MaxCombos)}
  \cup {<<r1, r2>> : r1 \in FirstRoutes, r2 \in ComboSeqs(MaxCombos)}

OrderIdle ==
  /\ ordMode = "rebuildNearest"
  /\ ordWeekKey = 1
  /\ ordStart = [lat |-> 0, lon |-> 0]
  /\ ordPoints = <<>>
  /\ ordOut = <<>>
  /\ ordDone = FALSE

OsrmIdle ==
  /\ net = "none"
  /\ fetchOutcome = "none"
  /\ routeRes = NoRoute
  /\ timerArmed = FALSE
  /\ timedOut = FALSE
  /\ ctrlAborted = FALSE
  /\ listenerOn = FALSE
  /\ osrmResult = "none"
  /\ abortCause = "none"
  /\ reqStarted = 0
  /\ reqAfterAbort = 0

SectionIdle ==
  /\ tasks = <<>>
  /\ isRunning = FALSE
  /\ error = ""
  /\ draftReports = None
  /\ draftOrders = None
  /\ abortRef = None
  /\ idx = 0
  /\ curOrdered = <<>>
  /\ reports = <<>>
  /\ ordersByPointId = NoOrders
  /\ runs = 0
  /\ progressLog = <<>>

BulkIdle ==
  /\ bTasks = <<>>
  /\ bi = 0
  /\ bNext = <<>>
  /\ bResult = "none"
  /\ bReturned = <<>>
  /\ bReq = <<>>
  /\ bFail = <<>>

DirectIdle ==
  /\ dCalls = 0
  /\ dCoords = 0

StoreIdle ==
  /\ open = TRUE
  /\ roadMileageReports = <<>>
  /\ territoryCalcRuns = <<>>
  /\ lastSave = "none"
  /\ pointsBefore = <<>>
  /\ saves = 0
  /\ reopenAborts = 0

TerritoryIdle ==
  /\ visiblePoints = <<>>
  /\ startByRoute = NoStarts
  /\ draft = None

CycleIdle ==
  /\ cyWeek = 0
  /\ cyOut = <<>>

SectionInit ==
  /\ caller = "section"
  /\ cfg \in SectionCfgs
  /\ dataPoints \in DataSets
  /\ hasSignal = TRUE
  /\ sigAborted = FALSE
  /\ bRun = <<>>
  /\ bMaxParam = None

BulkInit ==
  /\ caller = "bulk"
  /\ cfg = NoCfg
  /\ dataPoints = <<>>
  /\ hasSignal \in BOOLEAN
  /\ sigAborted = FALSE
  /\ bRun \in BulkRuns
  /\ bMaxParam \in {None, Some(1)}

DirectInit ==
  /\ caller = "direct"
  /\ cfg = NoCfg
  /\ dataPoints = <<>>
  /\ hasSignal \in BOOLEAN
  /\ sigAborted = FALSE
  /\ bRun = <<>>
  /\ bMaxParam = None

TerritoryInit ==
  /\ caller = "territory"
  /\ cfg \in TerritoryCfgs
  /\ dataPoints \in TerritoryData
  /\ visiblePoints = filteredPoints(dataPoints, cfg)
  /\ startByRoute \in TerritoryStarts
  /\ draft = None
  /\ hasSignal = FALSE
  /\ sigAborted = FALSE
  /\ bRun = <<>>
  /\ bMaxParam = None

Init ==
  /\ OrderIdle
  /\ pc = "idle"
  /\ OsrmIdle
  /\ SectionIdle
  /\ BulkIdle
  /\ DirectIdle
  /\ StoreIdle
  /\ CycleIdle
  /\ \/ SectionInit /\ TerritoryIdle
     \/ BulkInit /\ TerritoryIdle
     \/ DirectInit /\ TerritoryIdle
     \/ TerritoryInit

Next ==
  \/ Run
  \/ SectionIter
  \/ SectionResume
  \/ Cancel
  \/ Close
  \/ Reopen
  \/ saveWithoutOrder
  \/ saveWithOrder
  \/ Compute
  \/ TerritoryClose
  \/ TerritoryReopen
  \/ TerritorySaveWithoutOrder
  \/ TerritorySaveWithOrder
  \/ BulkStart
  \/ BulkIter
  \/ BulkResume
  \/ CallerAbort
  \/ DirectCall
  \/ DirectResume
  \/ TimerFire
  \/ FetchOk
  \/ FetchFail
  \/ JsonRoutes
  \/ JsonEmpty
  \/ OsrmSettle

Spec == Init /\ [][Next]_vars

TypeOK ==
  /\ pc \in {"idle", "s_loop", "s_await", "s_resume", "b_loop", "b_await",
             "b_resume", "b_end", "d_await", "d_resume"}
  /\ net \in {"none", "fetching", "json", "done"}
  /\ osrmResult \in {"none", "ok", "coords", "timeout", "AbortError", "http",
                     "network", "empty"}

(***************************************************************************)
(* Inputs of buildOrder: lists of locations with pairwise distinct ids     *)
(* (addPoints keeps one record per clientCode and never reassigns an id),  *)
(* any latitude of the grid, any saved rank under the active key (absent   *)
(* or 1..MaxRank), listed in any order.                                    *)
(***************************************************************************)
Lats == 0..MaxLat
RankValues == 1..MaxRank \cup {NoRank}

\* ranks under the keys other than the active one: a fixed decoy
RankMap(weekKey, r, id) ==
  [k \in WeekKeys |-> IF k = weekKey THEN r ELSE id]

MkPoint(id, lat, r, weekKey) ==
  [id |-> id, lat |-> lat, lon |-> 0,
   visitOrderByWeek |-> RankMap(weekKey, r, id)]

Injective(s) == \A i, j \in 1..Len(s) : i # j => s[i] # s[j]

OrderInit ==
  /\ ordMode \in OrderModes
  /\ ordWeekKey = 1
  /\ ordStart \in {[lat |-> l, lon |-> 0] : l \in Lats}
  /\ \E n \in 0..MaxPts :
       \E ids \in [1..n -> PointIds], lat \in [1..n -> Lats],
          rk \in [1..n -> RankValues] :
         /\ Injective(ids)
         /\ ordPoints = [i \in 1..n |-> MkPoint(ids[i], lat[i], rk[i], ordWeekKey)]
  /\ ordOut = <<>>
  /\ ordDone = FALSE
  /\ caller = "none"
  /\ pc = "idle"
  /\ OsrmIdle
  /\ SectionIdle
  /\ BulkIdle
  /\ DirectIdle
  /\ StoreIdle
  /\ TerritoryIdle
  /\ CycleIdle
  /\ cfg = NoCfg
  /\ dataPoints = <<>>
  /\ hasSignal = FALSE
  /\ sigAborted = FALSE
  /\ bRun = <<>>
  /\ bMaxParam = None

CallBuildOrder ==
  /\ ~ordDone
  /\ ordOut' = buildOrder(ordMode, ordWeekKey, ordStart, ordPoints)
  /\ ordDone' = TRUE
  /\ UNCHANGED <<ordMode, ordWeekKey, ordStart, ordPoints>>
  /\ UNCHANGED <<caller, pc, osrmVars, sigVars, secVars, progressLog,
                 bulkVars, dirVars, extVars>>

SpecOrder == OrderInit /\ [][CallBuildOrder]_vars

(***************************************************************************)
(* C1: buildOrder returns a permutation of its input: same length, and     *)
(* every location identifier occurs in the output exactly as many times as *)
(* in the input (no location duplicated, none omitted).                    *)
(***************************************************************************)
IsPermutationOf(out, in) ==
  /\ Len(out) = Len(in)
  /\ \A x \in PointIds : CountId(out, x) = CountId(in, x)
  /\ \A i \in 1..Len(out) : out[i] \in Range(in)

C1_Permutation == ordDone => IsPermutationOf(ordOut, ordPoints)

C1_Witness ==
  /\ ordDone
  /\ Len(ordPoints) = MaxPts
  /\ ordMode = "useExistingAndFill"
  /\ \E i, j \in 1..Len(ordPoints) :
       /\ HasFiniteRank(ordPoints[i], ordWeekKey)
       /\ ~HasFiniteRank(ordPoints[j], ordWeekKey)
  /\ Ids(ordOut) # Ids(ordPoints)


(***************************************************************************)
(* Properties of the runs, checked under Spec.                             *)
(***************************************************************************)
\* a section run went past its configuration checks
SectionStarted == caller = "section" /\ Len(progressLog) > 0

\* the section run that started last has ended
SectionEnded == SectionStarted /\ pc = "idle"

\* computeTerritoryRunRoads had tasks and its promise has settled
BulkEnded == caller = "bulk" /\ pc = "b_end" /\ Len(bTasks) > 0

CallerAborted == hasSignal /\ sigAborted

StopIds(s) == {s[i].id : i \in 1..Len(s)}

(***************************************************************************)
(* C2: whenever the caller's cancellation token is aborted while a run is  *)
(* running, for any combination including the last one, the run reports    *)
(* Cancelled and never Completed: the section run ends with the            *)
(* user-cancelled message and no draft, and computeTerritoryRunRoads does  *)
(* not return normally.                                                    *)
(***************************************************************************)
C2_AbortMeansCancelled ==
  /\ (SectionEnded /\ CallerAborted)
       => (error = "cancelled by user" /\ draftReports = None)
  /\ (BulkEnded /\ CallerAborted) => bResult = "thrown"

(***************************************************************************)
(* C3: when a run is cancelled after k combinations have been fully        *)
(* processed, the results of those k combinations are still in the run's   *)
(* result set after the run has ended.                                     *)
(***************************************************************************)
C3_PartialResultsKept ==
  /\ (SectionEnded /\ CallerAborted /\ Len(reports) > 0)
       => /\ draftReports # None
          /\ \A i \in 1..Len(reports) :
               /\ i <= Len(draftReports[1])
               /\ draftReports[1][i] = reports[i]
  /\ (BulkEnded /\ bResult = "thrown")
       => \A k \in 1..Len(bFail) :
            bFail[k] # "AbortError"
              => LET t == bTasks[k]
                 IN /\ t.routeIdx <= Len(bReturned)
                    /\ bReturned[t.routeIdx][t.comboIdx].road = BulkCombo(t).road

(***************************************************************************)
(* C4: once the caller's cancellation token is aborted, no provider        *)
(* request is pending (the in-flight one has been aborted) and no provider *)
(* request is issued any more by that run.                                 *)
(***************************************************************************)
C4_NoRequestAfterAbort ==
  CallerAborted => (~Pending /\ reqAfterAbort = 0)

C4_Witness ==
  /\ BulkEnded
  /\ bResult = "thrown"
  /\ abortCause = "caller"
  /\ bi >= 1
  /\ bi < Len(bTasks)
  /\ reqStarted = 1

(***************************************************************************)
(* C5: a settled osrmRoute call failed with the timeout error exactly when *)
(* its own timer aborted the request, and with the abort error exactly     *)
(* when the caller's signal aborted it.                                    *)
(***************************************************************************)
C5_CauseDistinguished ==
  osrmResult # "none"
    => /\ (osrmResult = "timeout") <=> (abortCause = "timer")
       /\ (osrmResult = "AbortError") <=> (abortCause = "caller")

C5_Witness ==
  /\ osrmResult = "timeout"
  /\ abortCause = "timer"
  /\ hasSignal
  /\ ~sigAborted
  /\ fetchOutcome = "AbortError"

(***************************************************************************)
(* C6: when the timer of an osrmRoute call has fired or the caller's       *)
(* signal is aborted (before the call or during it), no request of the     *)
(* call is pending, the awaited promise has been rejected, and the call    *)
(* settles with a failure.                                                 *)
(***************************************************************************)
C6_AbortSettlesCall ==
  (timedOut \/ CallerAborted)
    => /\ ~Pending
       /\ net = "done" => fetchOutcome \in {"AbortError", "coords"}
       /\ pc \in {"s_resume", "b_resume", "d_resume"}
            => osrmResult \in {"timeout", "AbortError", "coords"}

C6_Witness ==
  /\ caller = "direct"
  /\ pc = "d_resume"
  /\ dCoords = 3
  /\ CallerAborted
  /\ abortCause = "caller"
  /\ osrmResult = "AbortError"
  /\ reqStarted = 0

(***************************************************************************)
(* C7: in computeTerritoryRunRoads a provider failure (timeout,            *)
(* non-success response, network error, empty route list) marks only its   *)
(* own combination: road status 'error', driveKm 0, driveMinutes 0,        *)
(* totalMinutes = serviceMinutes; the run goes on, and the run returned    *)
(* has road status ok, skipped or error on the combination of every task.  *)
(***************************************************************************)
ProviderFailures == {"timeout", "http", "network", "empty"}

VisitSum(stops) == SumSeq([i \in 1..Len(stops) |-> stops[i].visitMinutes])

C7_FailureIsolated ==
  caller = "bulk"
    => /\ \A k \in 1..Len(bFail) :
            bFail[k] \in ProviderFailures
              => LET c == BulkCombo(bTasks[k])
                 IN /\ c.road # None
                    /\ c.road[1].status = "error"
                    /\ c.road[1].driveKm = 0
                    /\ c.road[1].driveMinutes = 0
                    /\ c.road[1].serviceMinutes = VisitSum(c.stops)
                    /\ c.road[1].totalMinutes = VisitSum(c.stops)
       /\ (BulkEnded /\ bResult = "thrown") => CallerAborted
       /\ (BulkEnded /\ bResult = "returned")
            => /\ Len(bFail) = Len(bTasks)
               /\ \A k \in 1..Len(bTasks) :
                    LET r == bReturned[bTasks[k].routeIdx][bTasks[k].comboIdx].road
                    IN r # None /\ r[1].status \in {"ok", "skipped", "error"}
               /\ \A ri \in 1..Len(bRun) : \A ci \in 1..Len(bRun[ri]) :
                    [routeIdx |-> ri, comboIdx |-> ci] \notin Range(bTasks)
                      => bReturned[ri][ci] = bRun[ri][ci]

C7_Witness ==
  /\ BulkEnded
  /\ bResult = "returned"
  /\ Len(bFail) >= 2
  /\ bFail[1] = "timeout"
  /\ bFail[2] = "ok"
  /\ ~sigAborted

(***************************************************************************)
(* C8: in the section run the first provider failure ends the run: no      *)
(* later combination is ordered or sent to the provider, no draft reports  *)
(* and no draft orders are published, and an error message is set.         *)
(***************************************************************************)
C8_FailureAbortsRun ==
  (SectionEnded /\ osrmResult \notin {"none", "ok"})
    => /\ draftReports = None
       /\ draftOrders = None
       /\ error # ""
       /\ ~isRunning
       /\ idx = Len(reports)
       /\ idx < Len(tasks)
       /\ reqStarted = idx + 1
       /\ Len(progressLog) = 2 * idx + 2
       /\ \A p \in PointIds : \A k \in WeekKeys :
            ordersByPointId[p][k] # NoRank
              => \E j \in 1..(idx + 1) :
                   tasks[j].weekKey = k /\ p \in StopIds(tasks[j].points)

C8_Witness ==
  /\ SectionEnded
  /\ osrmResult = "http"
  /\ idx = 1
  /\ Len(tasks) >= 3
  /\ error = "http"

(***************************************************************************)
(* C9: in computeTerritoryRunRoads a combination with more stops than the  *)
(* ceiling (maxStopsPerCombo, 25 unless given) is marked 'skipped' with    *)
(* driveKm 0, driveMinutes 0 and totalMinutes = serviceMinutes, and no     *)
(* provider request is issued for it; a combination with at most the       *)
(* ceiling is sent to the provider.                                        *)
(***************************************************************************)
Ceiling == IF bMaxParam = None THEN DefaultMaxStops ELSE bMaxParam[1]

C9_SizeGuard ==
  caller = "bulk"
    => \A k \in 1..Len(bFail) :
         LET c == BulkCombo(bTasks[k])
         IN /\ Len(c.stops) > Ceiling
                => /\ bFail[k] = "skipped"
                   /\ bReq[k] = 0
                   /\ c.road # None
                   /\ c.road[1].status = "skipped"
                   /\ c.road[1].driveKm = 0
                   /\ c.road[1].driveMinutes = 0
                   /\ c.road[1].totalMinutes = VisitSum(c.stops)
            /\ Len(c.stops) <= Ceiling
                => /\ bFail[k] # "skipped"
                   /\ bReq[k] = 1

C9_Witness ==
  /\ BulkEnded
  /\ bResult = "returned"
  /\ bMaxParam = None
  /\ \E k \in 1..Len(bFail) :
       /\ Len(BulkCombo(bTasks[k]).stops) = 40
       /\ bFail[k] = "skipped"
       /\ bReq[k] = 0
  /\ \E k \in 1..Len(bFail) :
       /\ Len(BulkCombo(bTasks[k]).stops) = DefaultMaxStops
       /\ bReq[k] = 1

(***************************************************************************)
(* C10: over the progress events of one run, total is constant, done never *)
(* exceeds total, and done is strictly increasing from each event to the   *)
(* next.                                                                   *)
(***************************************************************************)
C10_StrictlyIncreasing ==
  \A i \in 1..Len(progressLog) :
    /\ progressLog[i].total = progressLog[1].total
    /\ progressLog[i].done <= progressLog[i].total
    /\ i < Len(progressLog) => progressLog[i].done < progressLog[i + 1].done

(***************************************************************************)
(* C10, amended: over the progress events of one run, total is constant,   *)
(* done never exceeds total, and done never decreases: the event before a  *)
(* unit repeats the done of the event that precedes it, the event after a  *)
(* unit raises it by one.                                                  *)
(***************************************************************************)
C10_NonDecreasing ==
  \A i \in 1..Len(progressLog) :
    /\ progressLog[i].total = progressLog[1].total
    /\ progressLog[i].done <= progressLog[i].total
    /\ i < Len(progressLog)
         => progressLog[i + 1].done =
              progressLog[i].done + (IF i % 2 = 0 THEN 1 ELSE 0)

C10_Witness ==
  /\ SectionEnded
  /\ draftReports # None
  /\ Len(progressLog) >= 7
  /\ progressLog[Len(progressLog)].done = progressLog[1].total

(***************************************************************************)
(* C11: within one run the combinations are processed one at a time: the   *)
(* provider requests issued so far exceed the combinations already         *)
(* processed by at most one, a request is pending only while the run is    *)
(* suspended on it, and at the head of the loop, where the next request is *)
(* issued, every earlier request has settled.                              *)
(***************************************************************************)
C11_OneAtATime ==
  /\ Pending => pc \in {"s_await", "b_await", "d_await"}
  /\ caller = "section"
       => /\ reqStarted <= Len(reports) + 1
          /\ pc = "s_loop" => (net = "none" /\ reqStarted = Len(reports))
  /\ caller = "bulk"
       => /\ reqStarted <= SumSeq(bReq) + 1
          /\ pc = "b_loop" => (net = "none" /\ reqStarted = SumSeq(bReq))

C11_Witness ==
  /\ caller = "section"
  /\ Len(reports) = 1
  /\ net = "fetching"
  /\ reqStarted = 2

(***************************************************************************)
(* C12: at most one run of a section modal is active: whenever the modal   *)
(* would accept a request to start a run (it is open, isRunning is false   *)
(* and the event loop is idle), no earlier run is still executing and no   *)
(* provider request is pending; a run in flight when the modal is reopened *)
(* has been cancelled by then.                                             *)
(***************************************************************************)
RunButtonEnabled == caller = "section" /\ open /\ ~isRunning /\ QueueEmpty

C12_SingleRun == RunButtonEnabled => (pc = "idle" /\ net = "none")

C12_Witness ==
  /\ caller = "section"
  /\ reopenAborts >= 1
  /\ runs = 2
  /\ pc = "s_await"
  /\ net = "fetching"
  /\ isRunning


(***************************************************************************)
(* C13: when an order is accepted (saveWithOrder of the section modal or   *)
(* of the territory modal), every stop of every combination of the draft   *)
(* gets, under the combination's week key, the rank equal to its 1-based   *)
(* position in the combination's order; every other rank of every          *)
(* location, and every other field, is left as it was.                     *)
(***************************************************************************)
\* the combinations of the draft that a save handler persists
AcceptedCombos ==
  IF caller = "territory"
  THEN UNION {Range(draft[1].run.routes[i].combos) :
                i \in 1..Len(draft[1].run.routes)}
  ELSE Range(draftReports[1])

\* the positions of location q in the accepted combinations of week key k
PositionsOf(q, k) ==
  UNION {{n \in 1..Len(cb.stops) : cb.stops[n].pointId = q} :
           cb \in {x \in AcceptedCombos : x.weekKey = k}}

AcceptStep == saves' = saves + 1 /\ lastSave' = "accept"

C13_RanksArePositions ==
  [][AcceptStep =>
       /\ Len(dataPoints') = Len(dataPoints)
       /\ \A i \in 1..Len(dataPoints) :
            LET old == dataPoints[i]
                new == dataPoints'[i]
            IN /\ [new EXCEPT !.visitOrderByWeek = old.visitOrderByWeek] = old
               /\ \A k \in WeekKeys :
                    IF PositionsOf(old.id, k) = {}
                    THEN new.visitOrderByWeek[k] = old.visitOrderByWeek[k]
                    ELSE PositionsOf(old.id, k) = {new.visitOrderByWeek[k]}]_vars

\* an accepted order has changed a rank of a location and kept another
\* saved rank of the same location
C13_Witness ==
  /\ lastSave = "accept"
  /\ ~open
  /\ Len(pointsBefore) = Len(dataPoints)
  /\ \E i \in 1..Len(dataPoints) : \E k1, k2 \in WeekKeys :
       /\ dataPoints[i].visitOrderByWeek[k1] # pointsBefore[i].visitOrderByWeek[k1]
       /\ pointsBefore[i].visitOrderByWeek[k2] # NoRank
       /\ dataPoints[i].visitOrderByWeek[k2] = pointsBefore[i].visitOrderByWeek[k2]

(***************************************************************************)
(* C14: the locations change only in a step that accepts an order: the     *)
(* start of a run, its iterations, a cancel, a failure, a close, a reopen  *)
(* and a rejecting save leave data.points as it was.  A save step stores   *)
(* the draft with orderSaved false on reject and true on accept: every     *)
(* draft report (section modal), the one combined report (the copy of the  *)
(* section modal), the draft run (territory modal).                        *)
(***************************************************************************)
SaveStep == saves' = saves + 1

\* what the save step has put at the head of the stores
StoredWithFlag(flag) ==
  IF caller = "territory"
  THEN /\ Len(territoryCalcRuns') = Len(territoryCalcRuns) + 1
       /\ territoryCalcRuns'[1] = [draft[1].run EXCEPT !.orderSaved = flag]
       /\ roadMileageReports' = roadMileageReports
  ELSE /\ territoryCalcRuns' = territoryCalcRuns
       /\ IF cfg.variant = "A"
          THEN LET n == Len(draftReports[1])
               IN /\ Len(roadMileageReports') = Len(roadMileageReports) + n
                  /\ \A i \in 1..n :
                       roadMileageReports'[n + 1 - i] =
                         [draftReports[1][i] EXCEPT !.orderSaved = flag]
          ELSE /\ Len(roadMileageReports') = Len(roadMileageReports) + 1
               /\ roadMileageReports'[1].orderSaved = flag
               /\ roadMileageReports'[1].stops =
                    Concat([i \in 1..Len(draftReports[1]) |->
                              draftReports[1][i].stops])

C14_OnlyAcceptMutates ==
  [][/\ dataPoints' # dataPoints => AcceptStep
     /\ SaveStep => /\ lastSave' \in {"accept", "reject"}
                    /\ StoredWithFlag(lastSave' = "accept")]_vars

\* an order that differs from the saved ranks has been rejected: the report
\* is stored with orderSaved false and the locations are as before
C14_Witness ==
  /\ caller = "section"
  /\ lastSave = "reject"
  /\ ~open
  /\ draftOrders # None
  /\ ApplyOrders(dataPoints, draftOrders[1]) # dataPoints
  /\ dataPoints = pointsBefore
  /\ Len(roadMileageReports) > 0
  /\ roadMileageReports[1].orderSaved = FALSE

(***************************************************************************)
(* C15: a run request (run() of the section modal, compute() of the        *)
(* territory modal) made with a configuration error - no start point, no   *)
(* combination with a due location, or single scope without exactly one    *)
(* working day and one numeric cycle week - sets an error message and      *)
(* starts nothing: no request is issued, isRunning stays false and no      *)
(* draft is produced.                                                      *)
(***************************************************************************)
\* some location of route is due on a requested day of a requested week
HasDue(pts, route, dayList, weekList, c) ==
  \E w \in Range(weekList), d \in Range(dayList) \cap 1..5,
     i \in 1..Len(pts) :
    /\ pts[i].route = route
    /\ pts[i].visitDayCode = d
    /\ pointMatchesCycleWeek(pts[i].frequencyCode,
                             getTargetIsoWeekFromOffset(w, c.curWeek,
                                                        c.yearWeeks))

InvalidScope(c) ==
  /\ c.scope = "single"
  /\ ~(/\ Len(c.days) = 1
       /\ c.days[1] \in 1..5
       /\ Len(c.cycleWeeks) = 1
       /\ c.cycleWeeks[1] # Z0)

\* the section modal is asked to run with one of the three errors; the copy
\* of the modal has no scope selection
SectionConfigError ==
  /\ caller = "section"
  /\ baseOk(cfg)
  /\ \/ cfg.startPoint = None
     \/ cfg.variant = "A" /\ InvalidScope(cfg)
     \/ ~HasDue(dataPoints, cfg.sectionRoute,
                IF cfg.variant = "A" /\ cfg.scope = "single"
                THEN cfg.days ELSE selectedDayCodes(cfg),
                IF cfg.variant = "A" /\ cfg.scope = "single"
                THEN cfg.cycleWeeks ELSE selectedWeekOffsets(cfg),
                cfg)

\* the territory modal is asked to compute although no route has a start
\* point or no route with a start point has a due location
TerritoryConfigError ==
  /\ caller = "territory"
  /\ LET ar == activeRoutes(visiblePoints)
         rtc == routesToCalc(ar, startByRoute)
     IN \A k \in 1..Len(rtc) :
          ~HasDue(visiblePoints, rtc[k], selectedDayCodes(cfg),
                  selectedWeekOffsets(cfg), cfg)

RunRequest == runs' = runs + 1

NothingStarted ==
  /\ error' # ""
  /\ isRunning' = FALSE
  /\ pc' = "idle"
  /\ net' = "none"
  /\ reqStarted' = reqStarted
  /\ draftReports' = None
  /\ draft' = None

C15_ConfigErrorStopsRun ==
  [][RunRequest /\ (SectionConfigError \/ TerritoryConfigError)
       => NothingStarted]_vars

\* the part of C15 that the section modal satisfies
SectionConfigErrorStopsRun ==
  [][RunRequest /\ SectionConfigError => NothingStarted]_vars

(***************************************************************************)
(* Task enumeration as a pure function: the tasks memo of the section      *)
(* modal with the reports its run builds from them, and buildTerritoryRun, *)
(* applied to requests drawn from day filters, week filters, scopes,       *)
(* positions in the ISO year and lists of locations.                       *)
(***************************************************************************)
TaskCfgs ==
  [variant : {"A", "B"},
   mapMode : {"section"},
   sectionRoute : {"R1"},
   days : {<<>>, <<1>>, <<2, 1>>, <<6>>, <<6, 2>>},
   cycleWeeks : {<<>>, <<0>>, <<3, 1>>, <<Z0>>, <<Z0, 2>>},
   scope : {"single", "full"},
   orderMode : {"rebuildNearest"},
   startPoint : {Some([lat |-> 0, lon |-> 0])},
   curWeek : {10, 51, 52},
   yearWeeks : {52, 53}]

TaskPoints ==
  { << Loc(1, r, 2, d, f, 150, NoRanks),
       Loc(2, "R1", 1, second[1], second[2], NaN, NoRanks),
       Loc(3, "R1", 3, 1, "4", 100, NoRanks) >> :
      r \in Routes, d \in {1, 2, 6}, f \in FreqCodes,
      second \in {<<1, "2,2">>, <<2, "1,1">>} }

TasksInit ==
  /\ caller = "tasks"
  /\ cfg \in TaskCfgs
  /\ cfg.variant = "B" => cfg.scope = "full"
  /\ cfg.scope = "single" => (Len(cfg.days) = 1 /\ Len(cfg.cycleWeeks) = 1)
  /\ cfg.curWeek = 10 => cfg.yearWeeks = 52
  /\ dataPoints \in TaskPoints
  /\ visiblePoints = dataPoints
  /\ startByRoute = [r \in Routes |-> Some([lat |-> 0, lon |-> 0])]
  /\ draft = None
  /\ hasSignal = FALSE
  /\ sigAborted = FALSE
  /\ bRun = <<>>
  /\ bMaxParam = None
  /\ OrderIdle
  /\ pc = "idle"
  /\ OsrmIdle
  /\ SectionIdle
  /\ BulkIdle
  /\ DirectIdle
  /\ StoreIdle
  /\ CycleIdle

\* the reports of a run over ts in which every provider request succeeds
SectionReports(ts, c) ==
  [i \in 1..Len(ts) |->
     MkReport(ts[i],
              buildOrder(c.orderMode, ts[i].weekKey, c.startPoint[1],
                         ts[i].points),
              NoRoute, c.orderMode)]

ComputeTasks ==
  /\ caller = "tasks"
  /\ runs = 0
  /\ runs' = 1
  /\ tasks' = Tasks(cfg, dataPoints)
  /\ reports' = SectionReports(tasks', cfg)
  /\ draft' = Some(buildTerritoryRun(cfg, visiblePoints, startByRoute,
                                     activeRoutes(visiblePoints),
                                     selectedDayCodes(cfg),
                                     selectedWeekOffsets(cfg), cfg.orderMode))
  /\ UNCHANGED <<visiblePoints, startByRoute>>
  /\ UNCHANGED <<ordVars, caller, pc, osrmVars, sigVars, cfg, dataPoints,
                 isRunning, error, draftReports, draftOrders, abortRef, idx,
                 curOrdered, ordersByPointId, progressLog, bulkVars, dirVars,
                 storeVars, cycVars>>

SpecTasks == TasksInit /\ [][ComputeTasks]_vars

(***************************************************************************)
(* C16: the stops of every combination are exactly the due locations: a    *)
(* location of the input is a stop of the combination, once, if and only   *)
(* if its route is the combination's route, its weekday code is the        *)
(* combination's weekday and pointMatchesCycleWeek holds of its recurrence *)
(* code and the combination's ISO week.  Checked of the section reports    *)
(* against data.points and of the territory combos against visiblePoints.  *)
(***************************************************************************)
\* the identifiers of the locations of pts due in (route, dayCode, isoWeek)
DueIds(pts, route, dayCode, isoWeek) ==
  {pts[i].id : i \in {j \in 1..Len(pts) :
                        /\ pts[j].route = route
                        /\ pts[j].visitDayCode = dayCode
                        /\ pointMatchesCycleWeek(pts[j].frequencyCode, isoWeek)}}

StopsAreExactly(stops, ids) ==
  /\ {stops[n].pointId : n \in 1..Len(stops)} = ids
  /\ Len(stops) = Cardinality(ids)

RequestedWeeks(c) ==
  LET numeric == {x \in Range(c.cycleWeeks) : x # Z0}
  IN IF numeric = {} THEN 0..3 ELSE numeric

RequestedDays(c) ==
  LET weekdays == Range(c.days) \cap 1..5
  IN IF weekdays = {} THEN 1..5 ELSE weekdays

FullScope(c) == c.variant = "B" \/ c.scope = "full"

OneTaskPerDuePair(ts, pts, route, c) ==
  /\ \A w \in 0..3, d \in 1..7 :
       LET isoWeek == getTargetIsoWeekFromOffset(w, c.curWeek, c.yearWeeks)
           wanted == /\ w \in RequestedWeeks(c)
                     /\ d \in RequestedDays(c)
                     /\ DueIds(pts, route, d, isoWeek) # {}
       IN Cardinality({i \in 1..Len(ts) : /\ ts[i].weekOffset = w
                                          /\ ts[i].dayCode = d})
            = IF wanted THEN 1 ELSE 0
  /\ \A i \in 1..Len(ts) :
       /\ ts[i].weekOffset \in 0..3
       /\ ts[i].dayCode \in 1..5
       /\ ts[i].isoWeek = getTargetIsoWeekFromOffset(ts[i].weekOffset,
                                                     c.curWeek, c.yearWeeks)
  /\ \A i \in 1..(Len(ts) - 1) :
       \/ ts[i].weekOffset < ts[i + 1].weekOffset
       \/ /\ ts[i].weekOffset = ts[i + 1].weekOffset
          /\ ts[i].dayCode < ts[i + 1].dayCode

MinutesLaw(r, stops) ==
  /\ r.totalMinutes = r.driveMinutes + r.serviceMinutes
  /\ r.serviceMinutes = VisitSum(stops)

ReportsLaw(reps) ==
  \A i \in 1..Len(reps) : MinutesLaw(reps[i], reps[i].stops)

TerritoryRunLaw(run) ==
  \A i \in 1..Len(run.routes) : \A k \in 1..Len(run.routes[i].combos) :
    MinutesLaw(run.routes[i].combos[k].straight, run.routes[i].combos[k].stops)

BulkRunLaw(run) ==
  \A i \in 1..Len(run) : \A k \in 1..Len(run[i]) :
    run[i][k].road # None => MinutesLaw(run[i][k].road[1], run[i][k].stops)

C18_MinutesAddUp ==
  /\ ReportsLaw(reports)
  /\ draftReports # None => ReportsLaw(draftReports[1])
  /\ ReportsLaw(roadMileageReports)
  /\ draft # None => TerritoryRunLaw(draft[1].run)
  /\ \A i \in 1..Len(territoryCalcRuns) : TerritoryRunLaw(territoryCalcRuns[i])
  /\ BulkRunLaw(bNext)
  /\ BulkRunLaw(bReturned)

\* a combined report of at least two reports with a positive drive time has
\* been stored
C18_Witness ==
  /\ draftReports # None
  /\ Len(draftReports[1]) >= 2
  /\ Len(roadMileageReports) >= 1
  /\ roadMileageReports[1].dayCode = ALL
  /\ roadMileageReports[1].driveMinutes > draftReports[1][1].driveMinutes
  /\ Len(roadMileageReports[1].stops) > Len(draftReports[1][1].stops)

(***************************************************************************)
(* Persisting an order and building it again, as a pure function: the      *)
(* order of one combination is built in useExistingAndFill mode from any   *)
(* list of locations with any saved ranks, recorded as the run records it, *)
(* merged into the locations as saveWithOrder merges it, and built again   *)
(* from the updated locations.                                             *)
(***************************************************************************)
IdemInit == OrderInit /\ ordMode = "useExistingAndFill"

PersistAndRebuild ==
  /\ ordDone
  /\ saves = 0
  /\ saves' = 1
  /\ ordPoints' = ApplyOrders(ordPoints,
                              RecordOrder(NoOrders, ordOut, ordWeekKey))
  /\ curOrdered' = buildOrder(ordMode, ordWeekKey, ordStart, ordPoints')
  /\ UNCHANGED <<ordMode, ordWeekKey, ordStart, ordOut, ordDone>>
  /\ UNCHANGED <<caller, pc, osrmVars, sigVars, cfg, dataPoints, tasks,
                 isRunning, error, draftReports, draftOrders, abortRef, idx,
                 reports, ordersByPointId, runs, progressLog, bulkVars,
                 dirVars, open, roadMileageReports, territoryCalcRuns,
                 lastSave, pointsBefore, reopenAborts, terrVars, cycVars>>

SpecIdem == IdemInit /\ [][CallBuildOrder \/ PersistAndRebuild]_vars

(***************************************************************************)
(* C19: a run in useExistingAndFill mode whose order has been accepted,    *)
(* computed again in the same mode on the same locations, gives every      *)
(* combination the stop order it had the first time.                       *)
(***************************************************************************)
C19_Idempotent == saves = 1 => Ids(curOrdered) = Ids(ordOut)

\* the first order had three stops, one placed by its saved rank and one
\* filled in by distance, it differs from the nearest-neighbour order, and
\* it has been persisted and built again
C19_Witness ==
  /\ saves = 1
  /\ Len(ordOut) = 3
  /\ \E a, b \in 1..Len(ordOut) :
       /\ ordOut[a].visitOrderByWeek[ordWeekKey] # NoRank
       /\ ordOut[b].visitOrderByWeek[ordWeekKey] = NoRank
  /\ Ids(ordOut) # Ids(buildOrder("rebuildNearest", ordWeekKey, ordStart,
                                  ordPoints))
  /\ \A n \in 1..Len(ordPoints) :
       ordPoints[n].visitOrderByWeek[ordWeekKey] \in 1..3

\* the same in the modals: a draft computed in useExistingAndFill mode after
\* an accepting save repeats, combination by combination, the stored order
RunAgainSameOrder ==
  (lastSave = "accept" /\ open) =>
    /\ (caller = "section" /\ draftReports # None) =>
         \A i \in 1..Len(draftReports[1]) :
           \A k \in 1..Len(roadMileageReports) :
             LET d == draftReports[1][i]
                 st == roadMileageReports[k]
             IN (/\ st.orderSaved
                 /\ st.orderMode = "useExistingAndFill"
                 /\ d.orderMode = "useExistingAndFill"
                 /\ st.dayCode = d.dayCode
                 /\ st.isoWeek = d.isoWeek) => st.stops = d.stops
    /\ (caller = "territory" /\ draft # None
          /\ territoryCalcRuns[1].orderMode = "useExistingAndFill"
          /\ draft[1].run.orderMode = "useExistingAndFill") =>
         draft[1].run.routes = territoryCalcRuns[1].routes

(***************************************************************************)
(* The cycle slot as a pure function of the ISO week: both resolvers       *)
(* applied to a week w and to w + 4.                                       *)
(***************************************************************************)
IsoWeeks == 1..53

CycleInit ==
  /\ cyWeek \in IsoWeeks
  /\ cyOut = <<>>
  /\ caller = "cycle"
  /\ pc = "idle"
  /\ OrderIdle
  /\ OsrmIdle
  /\ SectionIdle
  /\ BulkIdle
  /\ DirectIdle
  /\ StoreIdle
  /\ TerritoryIdle
  /\ cfg = NoCfg
  /\ dataPoints = <<>>
  /\ hasSignal = FALSE
  /\ sigAborted = FALSE
  /\ bRun = <<>>
  /\ bMaxParam = None

ApplyCycle ==
  /\ cyOut = <<>>
  /\ cyOut' = [index |-> getCycleIndexByISOWeek(cyWeek),
               key |-> getWeekKeyFromIsoWeek(cyWeek),
               indexLater |-> getCycleIndexByISOWeek(cyWeek + 4),
               keyLater |-> getWeekKeyFromIsoWeek(cyWeek + 4)]
  /\ UNCHANGED cyWeek
  /\ UNCHANGED <<ordVars, caller, pc, osrmVars, sigVars, secVars, progressLog,
                 bulkVars, dirVars, storeVars, terrVars>>

SpecCycle == CycleInit /\ [][ApplyCycle]_vars

(***************************************************************************)
(* C20: for every ISO week w of 1..53, getCycleIndexByISOWeek(w) and       *)
(* getWeekKeyFromIsoWeek(w) are in 1..4, and each gives w + 4 the slot it  *)
(* gives w.                                                                *)
(***************************************************************************)
C20_SlotPeriodic ==
  cyOut # <<>> =>
    /\ cyOut.index \in 1..4
    /\ cyOut.key \in 1..4
    /\ cyOut.indexLater = cyOut.index
    /\ cyOut.keyLater = cyOut.key

\* week 53, whose successor by four weeks lies beyond the wrap at 52
C20_Witness ==
  /\ cyWeek = 53
  /\ cyOut # <<>>
  /\ cyOut.index = 1
  /\ cyOut.key = 1

(***************************************************************************)
(* The frequency resolver as a pure function: pointMatchesCycleWeek        *)
(* applied to a recurrence code and the ISO week of today, to the eight    *)
(* weeks from today on, and to the week at an offset as the map filter     *)
(* (currentISOWeek + offset) and as the engine (the ISO week of the date   *)
(* today + 7 * offset days) name it.  Today lies in ISO week curWeek of an *)
(* ISO year of yearWeeks weeks.                                            *)
(***************************************************************************)
YearLengths == {52, 53}

ResolverInputs ==
  {i \in [code : FreqCodes, curWeek : IsoWeeks, yearWeeks : YearLengths] :
     i.curWeek <= i.yearWeeks}

ResolverInit ==
  /\ cyWeek \in ResolverInputs
  /\ cyOut = <<>>
  /\ caller = "resolver"
  /\ pc = "idle"
  /\ OrderIdle
  /\ OsrmIdle
  /\ SectionIdle
  /\ BulkIdle
  /\ DirectIdle
  /\ StoreIdle
  /\ TerritoryIdle
  /\ cfg = NoCfg
  /\ dataPoints = <<>>
  /\ hasSignal = FALSE
  /\ sigAborted = FALSE
  /\ bRun = <<>>
  /\ bMaxParam = None

ResolverFrame ==
  /\ UNCHANGED cyWeek
  /\ UNCHANGED <<ordVars, caller, pc, osrmVars, sigVars, secVars, progressLog,
                 bulkVars, dirVars, storeVars, terrVars>>

\* pointMatchesCycleWeek(p.frequencyCode, isoWeek) for this week
ApplyActive ==
  /\ cyOut = <<>>
  /\ cyOut' = [op |-> "active",
               week |-> cyWeek.curWeek,
               active |-> pointMatchesCycleWeek(cyWeek.code, cyWeek.curWeek)]
  /\ ResolverFrame

\* the ISO weeks of today + 7 * o days for o = 0..7, each tested
ApplySpan ==
  /\ cyOut = <<>>
  /\ LET weeks == [o \in 1..8 |->
                     getTargetIsoWeekFromOffset(o - 1, cyWeek.curWeek,
                                                cyWeek.yearWeeks)]
     IN cyOut' = [op |-> "span",
                  weeks |-> weeks,
                  active |-> [o \in 1..8 |->
                                pointMatchesCycleWeek(cyWeek.code, weeks[o])]]
  /\ ResolverFrame

\* one week offset of the cycle filter, tested as filteredPoints tests it and
\* as buildTerritoryRun tests it
ApplyFilter ==
  /\ cyOut = <<>>
  /\ \E weekOffset \in 0..3 :
       cyOut' = [op |-> "filter",
                 weekOffset |-> weekOffset,
                 map |-> pointMatchesCycleWeek(cyWeek.code,
                                               cyWeek.curWeek + weekOffset),
                 engine |-> pointMatchesCycleWeek(cyWeek.code,
                              getTargetIsoWeekFromOffset(weekOffset,
                                cyWeek.curWeek, cyWeek.yearWeeks))]
  /\ ResolverFrame

SpecResolver ==
  ResolverInit /\ [][ApplyActive \/ ApplySpan \/ ApplyFilter]_vars

(***************************************************************************)
(* C21: pointMatchesCycleWeek follows this table for every ISO week 1..53: *)
(* an empty or unrecognized code is active; "0" is never active; "4" is    *)
(* always active; "2,1" is active exactly in odd weeks and "2,2" exactly   *)
(* in even weeks; "1,k" is active exactly when the week's cycle slot,      *)
(* ((week - 1) mod 4) + 1, is k.                                           *)
(***************************************************************************)
C21_ActiveTable ==
  (cyOut # <<>> /\ cyOut.op = "active") =>
    LET code == cyWeek.code
        w == cyOut.week
        slot == ((w - 1) % 4) + 1
    IN /\ code \in {"", "9"} => cyOut.active
       /\ code = "0" => ~cyOut.active
       /\ code = "4" => cyOut.active
       /\ code \in {"2,1", "2.1"} => (cyOut.active <=> w % 2 = 1)
       /\ code = "2,2" => (cyOut.active <=> w % 2 = 0)
       /\ code = "1,1" => (cyOut.active <=> slot = 1)
       /\ code = "1,2" => (cyOut.active <=> slot = 2)
       /\ code = "1,3" => (cyOut.active <=> slot = 3)
       /\ code = "1,4" => (cyOut.active <=> slot = 4)

\* code "2,1" tested against the even week 12: inactive
C21_Witness ==
  /\ cyOut # <<>>
  /\ cyOut.op = "active"
  /\ cyWeek.code = "2,1"
  /\ cyOut.week = 12
  /\ ~cyOut.active

(***************************************************************************)
(* C22: for the code "1,3", of the eight ISO weeks of any eight            *)
(* consecutive calendar weeks exactly two are active, and the active ones  *)
(* are exactly the weeks whose cycle slot, ((week - 1) mod 4) + 1, is 3.   *)
(***************************************************************************)
C22_TwoActiveInEight ==
  (cyOut # <<>> /\ cyOut.op = "span" /\ cyWeek.code = "1,3") =>
    /\ Cardinality({o \in 1..8 : cyOut.active[o]}) = 2
    /\ \A o \in 1..8 :
         cyOut.active[o] <=> ((cyOut.weeks[o] - 1) % 4) + 1 = 3

(***************************************************************************)
(* The section modal alone, with the scheduling the runtime guarantees:    *)
(* a queued continuation runs (SectionIter, SectionResume, OsrmSettle) and *)
(* the timeout timer of a pending osrmRoute call fires unless the call     *)
(* settles before, so every provider call settles.  Clicks are not fair.   *)
(***************************************************************************)
SectionLiveInit ==
  /\ OrderIdle
  /\ pc = "idle"
  /\ OsrmIdle
  /\ SectionIdle
  /\ BulkIdle
  /\ DirectIdle
  /\ StoreIdle
  /\ CycleIdle
  /\ TerritoryIdle
  /\ SectionInit
  /\ cfg.orderMode = "useExistingAndFill"
  /\ cfg.cycleWeeks = <<1, 0>>
  /\ cfg.scope = "full"
  /\ dataPoints = << Loc(1, "R1", 2, 1, "4", 150, [NoRanks EXCEPT ![3] = 2]),
                     Loc(2, "R1", 0, 1, "", 100,
                         [NoRanks EXCEPT ![3] = 1, ![4] = 1]),
                     Loc(3, "R2", 1, 1, "4", 0, NoRanks) >>

SectionNext ==
  \/ Run
  \/ SectionIter
  \/ SectionResume
  \/ Cancel
  \/ Close
  \/ Reopen
  \/ saveWithoutOrder
  \/ saveWithOrder
  \/ TimerFire
  \/ FetchOk
  \/ FetchFail
  \/ JsonRoutes
  \/ JsonEmpty
  \/ OsrmSettle

SpecLive ==
  /\ SectionLiveInit
  /\ [][SectionNext]_vars
  /\ WF_vars(SectionIter)
  /\ WF_vars(SectionResume)
  /\ WF_vars(OsrmSettle)
  /\ WF_vars(TimerFire)

\* the three ways a run ends, as the modal shows them
Completed ==
  /\ draftReports # None
  /\ Len(draftReports[1]) = Len(tasks)
  /\ draftOrders # None
  /\ error = ""

Cancelled ==
  /\ draftReports = None
  /\ error = "cancelled by user"

Failed ==
  /\ draftReports = None
  /\ error \notin {"", "cancelled by user"}

\* what the handler leaves behind when run() returns
Outcome ==
  /\ ~isRunning
  /\ abortRef = None
  /\ \/ Completed /\ ~Cancelled /\ ~Failed
     \/ Cancelled /\ ~Completed /\ ~Failed
     \/ Failed /\ ~Completed /\ ~Cancelled

(***************************************************************************)
(* C23: every started run of the section modal eventually leaves Running;  *)
(* the step that ends it leaves exactly one of Completed (drafts published *)
(* for all its tasks), Cancelled and Failed (error message set); and       *)
(* whenever no run is executing isRunning is false.                        *)
(***************************************************************************)
C23_RunTerminates ==
  /\ [](pc = "idle" => ~isRunning)
  /\ [][(pc # "idle" /\ pc' = "idle") => Outcome']_vars
  /\ (pc # "idle") ~> (pc = "idle")

\* the second run of a modal ends cancelled after its first combination was
\* computed
C23_Witness ==
  /\ runs = 2
  /\ pc = "idle"
  /\ Cancelled
  /\ Len(reports) >= 1

(***************************************************************************)
(* C24: in useExistingAndFill mode the output of buildOrder is the         *)
(* locations with a finite saved rank under the active key, in ascending   *)
(* rank and, for equal ranks, ascending identifier, followed by the        *)
(* locations without one, each at minimum straight-line distance from the  *)
(* location placed before it (from the start point when it is the first    *)
(* of the output) among those not yet placed.                              *)
(***************************************************************************)
C24_RankedThenNearest ==
  (ordDone /\ ordMode = "useExistingAndFill") =>
    LET n == Len(ordOut)
        k == Cardinality({i \in 1..Len(ordPoints) :
                            HasFiniteRank(ordPoints[i], ordWeekKey)})
        From(i) == IF i = 1 THEN ordStart ELSE ordOut[i - 1]
        Dist(i, j) == haversineDistance(From(i).lat, From(i).lon,
                                        ordOut[j].lat, ordOut[j].lon)
    IN /\ \A i \in 1..n : HasFiniteRank(ordOut[i], ordWeekKey) <=> i <= k
       /\ \A i, j \in 1..k :
            i < j =>
              \/ RankOf(ordOut[i], ordWeekKey) < RankOf(ordOut[j], ordWeekKey)
              \/ /\ RankOf(ordOut[i], ordWeekKey) = RankOf(ordOut[j], ordWeekKey)
                 /\ ordOut[i].id < ordOut[j].id
       /\ \A i \in (k + 1)..n : \A j \in i..n : Dist(i, i) <= Dist(i, j)

\* two locations with the same saved rank, listed in descending identifier,
\* and an unranked one that is not the nearest to the start point
C24_Witness ==
  /\ ordDone
  /\ ordMode = "useExistingAndFill"
  /\ Len(ordPoints) = 3
  /\ HasFiniteRank(ordPoints[1], ordWeekKey)
  /\ HasFiniteRank(ordPoints[2], ordWeekKey)
  /\ RankOf(ordPoints[1], ordWeekKey) = RankOf(ordPoints[2], ordWeekKey)
  /\ ordPoints[1].id > ordPoints[2].id
  /\ ~HasFiniteRank(ordPoints[3], ordWeekKey)
  /\ ordOut[3] = ordPoints[3]
  /\ ordOut[1] = ordPoints[2]
  /\ ordPoints[3].lat = ordStart.lat
  /\ ordPoints[1].lat # ordStart.lat

(***************************************************************************)
(* C25: the output of buildOrder does not depend on the order in which the *)
(* locations are listed in its input: every listing of the same locations  *)
(* gives the same visit order (ties in distance are resolved by            *)
(* identifier).                                                            *)
(***************************************************************************)
C25_ListingIndependent ==
  ordDone =>
    \A f \in [1..Len(ordPoints) -> 1..Len(ordPoints)] :
      Injective(f) =>
        LET listed == [i \in 1..Len(ordPoints) |-> ordPoints[f[i]]]
        IN Ids(buildOrder(ordMode, ordWeekKey, ordStart, listed)) = Ids(ordOut)

(***************************************************************************)
(* C26: whenever a run of the section modal is in flight and the event     *)
(* loop is idle (a click on cancel can be handled), abortRef holds the     *)
(* controller of that run, the most recent one, isRunning is true, and the *)
(* pending provider call listens on that controller's signal, not yet      *)
(* aborted: no earlier run's finally block has cleared the reference or    *)
(* reset isRunning.                                                        *)
(***************************************************************************)
C26_CancelReachesRun ==
  (caller = "section" /\ pc # "idle" /\ QueueEmpty) =>
    /\ abortRef = Some(runs)
    /\ isRunning
    /\ Pending
    /\ listenerOn
    /\ ~sigAborted
    /\ ~ctrlAborted

\* the second run of a modal whose first run was aborted by reopening it,
\* awaiting the provider for its second combination
C26_Witness ==
  /\ caller = "section"
  /\ reopenAborts >= 1
  /\ runs = 2
  /\ idx = 1
  /\ pc = "s_await"
  /\ QueueEmpty
  /\ abortRef = Some(2)
  /\ error = ""

(***************************************************************************)
(* C27: the section modal holds drafts only from a run that completed      *)
(* every one of its combinations: while a run is executing, and after a    *)
(* run that was cancelled or failed, draftReports and draftOrders are      *)
(* null; drafts that are present are the reports and the orders of all the *)
(* tasks of the last run; and the locations change only by a step that     *)
(* writes the orders of such a completed run.                              *)
(***************************************************************************)
C27_OnlyCompleteRunsPersist ==
  /\ [](caller = "section" =>
          /\ (pc # "idle" \/ error # "") =>
               (draftReports = None /\ draftOrders = None)
          /\ draftReports # None =>
               /\ draftOrders # None
               /\ idx = Len(tasks)
               /\ draftReports[1] = reports
               /\ Len(reports) = Len(tasks)
               /\ draftOrders[1] = ordersByPointId)
  /\ [][(caller = "section" /\ dataPoints' # dataPoints) =>
          /\ pc = "idle"
          /\ error = ""
          /\ draftOrders # None
          /\ idx = Len(tasks)
          /\ dataPoints' = ApplyOrders(dataPoints, ordersByPointId)]_vars

\* a second run cancelled after its first combination: ranks of a partly
\* processed run exist, the modal is open, and there is nothing to save
C27_Witness ==
  /\ caller = "section"
  /\ open
  /\ runs = 2
  /\ pc = "idle"
  /\ error = "cancelled by user"
  /\ idx = 1
  /\ Len(tasks) >= 2
  /\ ordersByPointId # NoOrders
  /\ draftReports = None
  /\ draftOrders = None

(***************************************************************************)
(* C28: two combinations of one run with the same route, the same weekday  *)
(* and the same cycle-slot key have the same stops in the same order, so   *)
(* the rank written for a location under that key is the same whichever of *)
(* the two is written last.                                                *)
(***************************************************************************)
C28_SameKeySameOrder ==
  runs = 1 =>
    /\ \A i, j \in 1..Len(reports) :
         (/\ reports[i].route = reports[j].route
          /\ reports[i].dayCode = reports[j].dayCode
          /\ reports[i].weekKey = reports[j].weekKey) =>
           reports[i].stops = reports[j].stops
    /\ \A r \in 1..Len(draft[1].run.routes) :
         LET combos == draft[1].run.routes[r].combos
         IN \A i, j \in 1..Len(combos) :
              (/\ combos[i].dayCode = combos[j].dayCode
               /\ combos[i].weekKey = combos[j].weekKey) =>
                combos[i].stops = combos[j].stops

\* weeks 53 and 1, both of key 1, in one run of each engine, with two stops
C28_Witness ==
  /\ runs = 1
  /\ \E i, j \in 1..Len(reports) :
       /\ reports[i].isoWeek = 53
       /\ reports[j].isoWeek = 1
       /\ reports[i].dayCode = reports[j].dayCode
       /\ reports[i].weekKey = reports[j].weekKey
       /\ Len(reports[i].stops) = 2
  /\ \E r \in 1..Len(draft[1].run.routes) :
       \E i, j \in 1..Len(draft[1].run.routes[r].combos) :
         LET combos == draft[1].run.routes[r].combos
         IN /\ combos[i].isoWeek = 53
            /\ combos[j].isoWeek = 1
            /\ combos[i].dayCode = combos[j].dayCode
            /\ combos[i].weekKey = combos[j].weekKey
            /\ Len(combos[i].stops) = 2

(***************************************************************************)
(* C29: for every current ISO week, year length, week offset 0..3 and      *)
(* recurrence code, the cycle filter of the map (the code tested against   *)
(* currentISOWeek + offset) and the engine (the code tested against the    *)
(* ISO week of the date today + 7 * offset days) agree on whether the      *)
(* location is active.                                                     *)
(***************************************************************************)
C29_FilterAgreesWithEngine ==
  (cyOut # <<>> /\ cyOut.op = "filter") => cyOut.map = cyOut.engine

(***************************************************************************)
(* C30: once a call of osrmRoute has settled (no call is in progress), its *)
(* timeout timer is cleared and its listener is off the caller's signal;   *)
(* and while no call is in progress no step, an abort of the caller's      *)
(* signal included, changes what the last call returned or the flags of    *)
(* its controller.                                                         *)
(***************************************************************************)
C30_ResourcesReleased ==
  /\ [](net = "none" => (~timerArmed /\ ~listenerOn))
  /\ [][(net = "none" /\ net' = "none") =>
          UNCHANGED <<osrmResult, routeRes, timedOut, ctrlAborted,
                      abortCause, fetchOutcome>>]_vars

\* a call that returned a route, and the caller's signal aborted afterwards
C30_Witness ==
  /\ hasSignal
  /\ net = "none"
  /\ osrmResult = "ok"
  /\ sigAborted
  /\ ~ctrlAborted
  /\ ~timerArmed
  /\ ~listenerOn
  /\ reqStarted >= 1
=============================================================================
